---- MODULE Spec2Model ----
(***************************************************************************)
(* Model of the feedback-to-issue ingestion pipeline of                    *)
(* src/src/sentry/feedback/usecases/create_feedback.py.                    *)
(*                                                                         *)
(* Python values are modelled as follows.  An optional value (a dict key   *)
(* that may be absent, or None) is a tuple of length 0 or 1: <<>> is       *)
(* None/absent and <<v>> is the value v.  A str is a tuple of one-letter   *)
(* strings.  A dict is a record.  One call of create_feedback_issue is an  *)
(* invocation slot whose program counter walks through the statements of   *)
(* the function; every external call is one step.                          *)
(*                                                                         *)
(* Each slot keeps, in `trace`, the calls the invocation made and the       *)
(* answers it got, in order; the properties are stated on it.  The answers  *)
(* of the collaborators (feature flags, the classifier, jsonschema, the     *)
(* signal receivers, the stream producer) are inputs, chosen at the call.   *)
(* The event is taken to carry a timestamp and the project to exist, and    *)
(* track_outcome to write its record when it is called.                     *)
(***************************************************************************)
EXTENDS Integers, Sequences, FiniteSets, Bags, TLC

\* ------------------------------------------------------------------ bounds
MaxInv == 2           \* invocation slots that may run at the same time
MaxSubmissions == 2   \* calls of create_feedback_issue in one behaviour
MaxProjects == 2      \* projects
MaxMsgLen == 1        \* longest message submitted to the pipeline
MaxFilterMsgLen == 3  \* longest message given to should_filter_feedback alone

Slots == 1..MaxInv
ProjectIds == 1..MaxProjects

\* ------------------------------------------------------------ python values
None == <<>>
Some(v) == <<v>>
IsNone(x) == x = <<>>
Val(x) == x[1]

Whitespace == {" ", "\t", "\n"}
Alphabet == Whitespace \cup {"a"}
PipelineAlphabet == {" ", "a"}

UNREAL_FEEDBACK_UNATTENDED_MESSAGE ==
  << "S","e","n","t"," ","i","n"," ","t","h","e"," ",
     "u","n","a","t","t","e","n","d","e","d"," ","m","o","d","e" >>

\* str.strip(): drop leading, then trailing, whitespace.
RECURSIVE lstrip(_)
lstrip(s) ==
  IF s = <<>> THEN <<>>
  ELSE IF Head(s) \in Whitespace THEN lstrip(Tail(s)) ELSE s

RECURSIVE rstrip(_)
rstrip(s) ==
  IF s = <<>> THEN <<>>
  ELSE IF s[Len(s)] \in Whitespace THEN rstrip(SubSeq(s, 1, Len(s) - 1)) ELSE s

strip(s) == rstrip(lstrip(s))

\* ------------------------------------------------------ FeedbackCreationSource
NEW_FEEDBACK_ENVELOPE == "new_feedback_envelope"
NEW_FEEDBACK_DJANGO_ENDPOINT == "new_feedback_sentry_django_endpoint"
USER_REPORT_DJANGO_ENDPOINT == "user_report_sentry_django_endpoint"
USER_REPORT_ENVELOPE == "user_report_envelope"
CRASH_REPORT_EMBED_FORM == "crash_report_embed_form"
UPDATE_USER_REPORTS_TASK == "update_user_reports_task"

FeedbackCreationSource ==
  { NEW_FEEDBACK_ENVELOPE, NEW_FEEDBACK_DJANGO_ENDPOINT, USER_REPORT_DJANGO_ENDPOINT,
    USER_REPORT_ENVELOPE, CRASH_REPORT_EMBED_FORM, UPDATE_USER_REPORTS_TASK }

new_feedback_category_values == { NEW_FEEDBACK_ENVELOPE, NEW_FEEDBACK_DJANGO_ENDPOINT }

old_feedback_category_values ==
  { CRASH_REPORT_EMBED_FORM, USER_REPORT_ENVELOPE, USER_REPORT_DJANGO_ENDPOINT,
    UPDATE_USER_REPORTS_TASK }

\* ------------------------------------------------------------------- events
\* The part of a submitted event the pipeline reads: contexts.feedback.message
\* with each level optional, the optional event_id, and the timestamp.
MkEvent(ctx, eid) == [contexts |-> ctx, event_id |-> eid, timestamp |-> Some(1)]
MkContexts(fb) == Some([feedback |-> fb])
MkFeedback(msg) == Some([message |-> msg])

SeqsUpTo(S, n) == UNION { [1..k -> S] : k \in 0..n }

ContextsOver(msgs) ==
  { None, MkContexts(None), MkContexts(MkFeedback(None)) }
    \cup { MkContexts(MkFeedback(Some(m))) : m \in msgs }

FilterMessages ==
  SeqsUpTo(Alphabet, MaxFilterMsgLen)
    \cup { UNREAL_FEEDBACK_UNATTENDED_MESSAGE,
           UNREAL_FEEDBACK_UNATTENDED_MESSAGE \o <<" ">>,
           <<" ">> \o UNREAL_FEEDBACK_UNATTENDED_MESSAGE }

PipelineMessages ==
  SeqsUpTo(PipelineAlphabet, MaxMsgLen) \cup { UNREAL_FEEDBACK_UNATTENDED_MESSAGE }

FilterEvents == { MkEvent(c, None) : c \in ContextsOver(FilterMessages) }
PipelineEvents == { MkEvent(c, None) : c \in ContextsOver(PipelineMessages) }

\* event["contexts"]["feedback"]["message"], None when a level is missing.
Message(event) ==
  IF IsNone(event.contexts) THEN None
  ELSE IF IsNone(Val(event.contexts).feedback) THEN None
  ELSE Val(Val(event.contexts).feedback).message

\* ------------------------------------------------------------------ metrics
FILTERED == "feedback.create_feedback_issue.filtered"
ENTERED == "feedback.create_feedback_issue.entered"
INVALID_SCHEMA == "feedback.create_feedback_issue.invalid_schema"
MISSING_EVENT == "feedback.user_report.missing_event"
PRODUCED_OCCURRENCE == "feedback.create_feedback_issue.produced_occurrence"
SET_IGNORED == "feedback.spam-detection-actions.set-ignored"

\* ------------------------------------------------------- features and options
SPAM_FILTER_INGEST == "organizations:user-feedback-spam-filter-ingest"
SPAM_FILTER_ACTIONS == "organizations:user-feedback-spam-filter-actions"
AI_SPAM_DETECTION == "sentry:feedback_ai_spam_detection"

\* One entry of an invocation's record of what it did, in order.
Entry(op, name, tag) == [op |-> op, name |-> name, tag |-> tag]
Incr(name, tag) == Entry("incr", name, tag)

\* ------------------------------------------------------ should_filter_feedback
\* The result and the counters incremented on the way, in order.
\* The filter with the message compared to "" without strip(): C1 fails for it.
should_filter_feedback_nostrip(event) ==
  IF IsNone(Message(event)) THEN
    [result |-> TRUE, incrs |-> << Incr(FILTERED, "missing_context") >>]
  ELSE IF Val(Message(event)) = UNREAL_FEEDBACK_UNATTENDED_MESSAGE THEN
    [result |-> TRUE, incrs |-> << Incr(FILTERED, "unreal.unattended") >>]
  ELSE IF Val(Message(event)) = <<>> THEN
    [result |-> TRUE, incrs |-> << Incr(FILTERED, "empty") >>]
  ELSE [result |-> FALSE, incrs |-> << >>]

should_filter_feedback(event) ==
  IF \/ IsNone(event.contexts)
     \/ IsNone(Val(event.contexts).feedback)
     \/ IsNone(Val(Val(event.contexts).feedback).message)
  THEN [result |-> TRUE, incrs |-> << Incr(FILTERED, "missing_context") >>]
  ELSE IF Val(Val(Val(event.contexts).feedback).message) = UNREAL_FEEDBACK_UNATTENDED_MESSAGE
  THEN [result |-> TRUE, incrs |-> << Incr(FILTERED, "unreal.unattended") >>]
  ELSE IF strip(Val(Val(Val(event.contexts).feedback).message)) = <<>>
  THEN [result |-> TRUE, incrs |-> << Incr(FILTERED, "empty") >>]
  ELSE [result |-> FALSE, incrs |-> << >>]

\* ------------------------------------------------- validate_issue_platform_event_schema
\* valid_current, valid_legacy: whether jsonschema.validate accepts the event
\* against EVENT_PAYLOAD_SCHEMA and LEGACY_EVENT_PAYLOAD_SCHEMA.  The result is
\* whether the ValidationError is re-raised, with what was done on the way.
\* The validator without the legacy fallback: C7 fails for it.
validate_issue_platform_event_schema_no_fallback(valid_current, valid_legacy) ==
  IF valid_current THEN
    [raised |-> FALSE, did |-> << Entry("jsonschema.validate", "current", "valid") >>]
  ELSE
    [raised |-> TRUE,
     did |-> << Entry("jsonschema.validate", "current", "invalid"),
                Incr(INVALID_SCHEMA, "") >>]

validate_issue_platform_event_schema(valid_current, valid_legacy) ==
  IF valid_current THEN
    [raised |-> FALSE, did |-> << Entry("jsonschema.validate", "current", "valid") >>]
  ELSE IF valid_legacy THEN
    [raised |-> FALSE,
     did |-> << Entry("jsonschema.validate", "current", "invalid"),
                Entry("jsonschema.validate", "legacy", "valid") >>]
  ELSE
    [raised |-> TRUE,
     did |-> << Entry("jsonschema.validate", "current", "invalid"),
                Entry("jsonschema.validate", "legacy", "invalid"),
                Incr(INVALID_SCHEMA, "") >>]

\* ------------------------------------------------------------ make_evidence
\* A dict is a record of its keys, each value an optional: a key that is absent
\* and a key whose value is None are not told apart.
\* dict.get(key): the value under the key, None when the key is absent.
Get(d, key) == IF key \in DOMAIN d THEN d[key] ELSE None

\* The truth value of an optional str or dict: None, "" and {} are false.
Truthy(x) == ~IsNone(x) /\ DOMAIN Val(x) # {}

EmptyDict == [k \in {} |-> None]
Put(d, key, value) == [k \in DOMAIN d \cup {key} |-> IF k = key THEN value ELSE d[k]]

IssueEvidence(name, value, important) ==
  [name |-> name, value |-> value, important |-> important]

\* str(bool)
str(b) == IF b THEN "True" ELSE "False"

\* evidence_data[name] = value; evidence_display.append(IssueEvidence(...))
AddEvidence(e, name, value, shown, important) ==
  [ evidence_data |-> Put(e.evidence_data, name, value),
    evidence_display |-> Append(e.evidence_display, IssueEvidence(name, shown, important)) ]

AddField(e, feedback, name, important) ==
  IF Truthy(Get(feedback, name))
  THEN AddEvidence(e, name, Val(Get(feedback, name)), Val(Get(feedback, name)), important)
  ELSE e

\* make_evidence with the message not marked important and the source listed
\* before the name. C15 fails for it.
make_evidence_reordered(feedback, source, is_message_spam) ==
  LET e0 == [evidence_data |-> EmptyDict, evidence_display |-> << >>]
      e1 == AddField(e0, feedback, "associated_event_id", FALSE)
      e2 == AddField(e1, feedback, "contact_email", FALSE)
      e3 == AddField(e2, feedback, "message", FALSE)
      e4 == AddEvidence(e3, "source", source, source, FALSE)
      e5 == AddField(e4, feedback, "name", FALSE)
  IN IF is_message_spam = "True"
     THEN AddEvidence(e5, "is_spam", TRUE, str(TRUE), FALSE)
     ELSE e5

\* def make_evidence(feedback, source, is_message_spam):
\*     if feedback.get("associated_event_id"): ...
\*     if feedback.get("contact_email"): ...
\*     if feedback.get("message"): ... important=True
\*     if feedback.get("name"): ...
\*     evidence_data["source"] = source.value; ...
\*     if is_message_spam is True: evidence_data["is_spam"] = is_message_spam; ...
\*     return evidence_data, evidence_display
make_evidence(feedback, source, is_message_spam) ==
  LET e0 == [evidence_data |-> EmptyDict, evidence_display |-> << >>]
      e1 == AddField(e0, feedback, "associated_event_id", FALSE)
      e2 == AddField(e1, feedback, "contact_email", FALSE)
      e3 == AddField(e2, feedback, "message", TRUE)
      e4 == AddField(e3, feedback, "name", FALSE)
      e5 == AddEvidence(e4, "source", source, source, FALSE)
  IN IF is_message_spam = "True"
     THEN AddEvidence(e5, "is_spam", TRUE, str(TRUE), FALSE)
     ELSE e5

\* ---------------------------------------------------- fix_for_issue_platform
\* del d[key]
Del(d, key) == [k \in DOMAIN d \ {key} |-> d[k]]

\* dict.get(key, default)
GetOr(d, key, default) == IF Get(d, key) = None THEN default ELSE Get(d, key)

\* {**base, **event}: the keys of `event` override those of `base`.
Merge(base, event) ==
  [k \in DOMAIN base \cup DOMAIN event |-> IF k \in DOMAIN event THEN event[k] ELSE base[k]]

\* datetime.isoformat(): the text of an instant.
isoformat(t) == [isoformat |-> t]

\* A user id is an int, [int |-> n], or a str, [str |-> s]; str(id) is the
\* decimal text of an int and the str itself.
Digit == << "0", "1", "2", "3", "4", "5", "6", "7", "8", "9" >>

\* The id left as it is. C21 fails for it.
str_of_id_unchanged(id) == id

str_of_id(id) == IF "int" \in DOMAIN id THEN [str |-> << Digit[id.int + 1] >>] ELSE id

\* fix_for_issue_platform with the replay context synthesized whenever the
\* feedback has a replay_id, also over a replay context of the event. C20
\* fails for it.
synthesized_replay_always(contexts) ==
  LET feedback_obj == IF Get(contexts, "feedback") = None THEN EmptyDict
                      ELSE Val(Get(contexts, "feedback"))
  IN IF Truthy(Get(feedback_obj, "replay_id"))
     THEN Put(contexts, "replay", Some([replay_id |-> Get(feedback_obj, "replay_id")]))
     ELSE contexts

\*     if not event_data["contexts"].get("replay") and
\*             event_data["contexts"].get("feedback", {}).get("replay_id"):
\*         ret_event["contexts"]["replay"] = {"replay_id": ...}
\* The contexts dict after these lines.
synthesized_replay(contexts) ==
  LET feedback_obj == IF Get(contexts, "feedback") = None THEN EmptyDict
                      ELSE Val(Get(contexts, "feedback"))
  IN IF ~Truthy(Get(contexts, "replay")) /\ Truthy(Get(feedback_obj, "replay_id"))
     THEN Put(contexts, "replay", Some([replay_id |-> Get(feedback_obj, "replay_id")]))
     ELSE contexts

\* def fix_for_issue_platform(event_data):
\* for an event_data that has contexts, timestamp, received, project_id and
\* event_id (create_feedback_issue provides them). ret_event is the returned
\* dict and event_data the argument as the call leaves it: ret_event["contexts"]
\* is the contexts dict of the argument, and ret_event["user"] its user dict
\* when it has one, so what is written to the one is written to the other.
fix_for_issue_platform(event_data) ==
  LET contexts == synthesized_replay(Val(Get(event_data, "contexts")))
      feedback_obj == IF Get(contexts, "feedback") = None THEN EmptyDict
                      ELSE Val(Get(contexts, "feedback"))
      has_user == Get(event_data, "user") # None
      user0 == IF has_user THEN Val(Get(event_data, "user")) ELSE EmptyDict
      user1 == IF Get(user0, "name") # None THEN Del(user0, "name") ELSE user0
      user2 == IF Get(user1, "isStaff") # None THEN Del(user1, "isStaff") ELSE user1
      user3 == IF Get(user2, "id") # None
               THEN Put(user2, "id", Some(str_of_id(Val(Get(user2, "id")))))
               ELSE user2
      contact_email == Get(feedback_obj, "contact_email")
      user == IF ~Truthy(Get(user3, "email")) THEN Put(user3, "email", contact_email)
              ELSE user3
      ret0 == [ timestamp |-> Some(isoformat(Val(Get(event_data, "timestamp")))),
                received |-> Get(event_data, "received"),
                project_id |-> Get(event_data, "project_id"),
                contexts |-> Some(contexts),
                event_id |-> Get(event_data, "event_id"),
                tags |-> GetOr(event_data, "tags", Some(<< >>)),
                platform |-> GetOr(event_data, "platform", Some("other")),
                level |-> GetOr(event_data, "level", Some("info")),
                environment |-> GetOr(event_data, "environment", Some("production")),
                request |-> GetOr(event_data, "request", Some(EmptyDict)),
                user |-> Some(user),
                logentry |-> Some([message |-> Get(feedback_obj, "message")]) ]
      ret_event == IF Truthy(Get(event_data, "sdk"))
                   THEN Put(ret0, "sdk", Get(event_data, "sdk"))
                   ELSE ret0
      data0 == Put(event_data, "contexts", Some(contexts))
      data1 == IF Get(data0, "dist") # None THEN Del(data0, "dist") ELSE data0
      data2 == IF has_user THEN Put(data1, "user", Some(user)) ELSE data1
  IN [ ret_event |-> ret_event, event_data |-> data2 ]

\* -------------------------------------------------------------------- state
VARIABLES
  inv,        \* per slot: the locals of one create_feedback_issue call
  flags,      \* per project: the persisted has_feedbacks / has_new_feedbacks flags
  stream,     \* the durable stream: what produce_occurrence_to_kafka has published
  outcomes,   \* the outcome records track_outcome has written
  metrics,    \* the counters of the metrics sink, a bag of <<name, tag>>
  received,   \* per <<signal, project>>: receivers run to completion
  uuids,      \* the number of uuid4() values drawn so far
  submitted   \* the number of create_feedback_issue calls so far

vars == << inv, flags, stream, outcomes, metrics, received, uuids, submitted >>

FIRST_FEEDBACK == "first_feedback_received"
FIRST_NEW_FEEDBACK == "first_new_feedback_received"
Signals == { FIRST_FEEDBACK, FIRST_NEW_FEEDBACK }

\* `given` keeps the event as the caller passed it; the call never reads it.
\* `shim` is the frame of shim_to_feedback when the call is made by it.
Idle ==
  [ pc |-> "idle", event |-> MkEvent(None, None), project_id |-> 1,
    source |-> NEW_FEEDBACK_ENVELOPE, project |-> None, is_message_spam |-> "None",
    evidence |-> None, occurrence |-> None, event_fixed |-> None, trace |-> << >>,
    given |-> MkEvent(None, None), shim |-> None ]

NoFlags == [has_feedbacks |-> FALSE, has_new_feedbacks |-> FALSE]

Init ==
  /\ inv = [i \in Slots |-> Idle]
  /\ flags = [p \in ProjectIds |-> NoFlags]
  /\ stream = << >>
  /\ outcomes = << >>
  /\ metrics = EmptyBag
  /\ received = [k \in Signals \X ProjectIds |-> 0]
  /\ uuids = 0
  /\ submitted = 0

Bump(bag, entries) ==
  LET incrs == { k \in 1..Len(entries) : entries[k].op = "incr" }
      RECURSIVE Add(_, _)
      Add(b, k) ==
        IF k > Len(entries) THEN b
        ELSE IF k \in incrs
             THEN Add(b (+) SetToBag({ << entries[k].name, entries[k].tag >> }), k + 1)
             ELSE Add(b, k + 1)
  IN Add(bag, 1)

\* ----------------------------------------------------------- external calls
\* Signal.send_robust: every receiver is called and a receiver's exception is
\* caught, so the call itself never raises.  The receiver of a first-seen
\* signal sets the project's persisted flag when it runs to completion.
\* `ok` is whether the receiver ran to completion.
RecordFlag(fl, signal, project_id) ==
  IF signal = FIRST_FEEDBACK
  THEN [fl EXCEPT ![project_id].has_feedbacks = TRUE]
  ELSE [fl EXCEPT ![project_id].has_new_feedbacks = TRUE]

send_robust(signal, project_id, ok) ==
  [ raised |-> FALSE,
    flags |-> IF ok THEN RecordFlag(flags, signal, project_id) ELSE flags,
    received |-> IF ok THEN [received EXCEPT ![<<signal, project_id>>] = @ + 1]
                 ELSE received,
    did |-> << Entry("send_robust", signal, IF ok THEN "ok" ELSE "receiver_failed") >> ]

\* ------------------------------------------------------- create_feedback_issue
\* The statements of create_feedback_issue in the order they are written; a
\* statement that neither returns nor raises is followed by the next one.
Statements ==
  << "filter", "get_project", "classify", "build", "validate", "first_feedback",
     "first_new_feedback", "produce", "auto_ignore", "track_outcome", "returned" >>

\* The statements with the validation moved after the produce call: C4 fails
\* for this order.
StatementsValidateLate ==
  << "filter", "get_project", "classify", "build", "first_feedback",
     "first_new_feedback", "produce", "validate", "auto_ignore", "track_outcome",
     "returned" >>

After(order, pc) == order[(CHOOSE k \in 1..Len(order) : order[k] = pc) + 1]

NextStatementValidateLate(pc) == After(StatementsValidateLate, pc)

NextStatement(pc) == After(Statements, pc)

Goto(i, l) == inv' = [inv EXCEPT ![i] = l]
Did(l, entries) == [l EXCEPT !.trace = @ \o entries]
Raise(l, entries) == [Did(l, entries \o << Entry("raise", "", "") >>) EXCEPT !.pc = "raised"]

\* def create_feedback_issue(event, project_id, source):
\*     metrics.incr("feedback.create_feedback_issue.entered")
Enter(i, event, project_id, source) ==
  /\ inv[i].pc = "idle"
  /\ submitted < MaxSubmissions
  /\ submitted' = submitted + 1
  /\ metrics' = Bump(metrics, << Incr(ENTERED, "") >>)
  /\ Goto(i, [Idle EXCEPT !.pc = "filter", !.event = event, !.project_id = project_id,
                          !.source = source, !.trace = << Incr(ENTERED, "") >>,
                          !.given = event, !.shim = inv[i].shim])
  /\ UNCHANGED << flags, stream, outcomes, received, uuids >>

\*     if should_filter_feedback(event, project_id, source):
\*         return
\* The filter with its result ignored: C2 fails for it.
FilterIgnored(i) ==
  LET r == should_filter_feedback(inv[i].event)
      did == << Entry("call", "should_filter_feedback", "") >> \o r.incrs
  IN /\ inv[i].pc = "filter"
     /\ metrics' = Bump(metrics, r.incrs)
     /\ Goto(i, [Did(inv[i], did) EXCEPT !.pc = NextStatement("filter")])
     /\ UNCHANGED << flags, stream, outcomes, received, uuids, submitted >>

Filter(i) ==
  LET r == should_filter_feedback(inv[i].event)
      did == << Entry("call", "should_filter_feedback", "") >> \o r.incrs
  IN /\ inv[i].pc = "filter"
     /\ metrics' = Bump(metrics, r.incrs)
     /\ Goto(i, [Did(inv[i], did) EXCEPT !.pc = IF r.result THEN "returned" ELSE NextStatement("filter")])
     /\ UNCHANGED << flags, stream, outcomes, received, uuids, submitted >>

\*     project = Project.objects.get_from_cache(id=project_id)
GetProject(i) ==
  /\ inv[i].pc = "get_project"
  /\ Goto(i, [Did(inv[i], << Entry("call", "get_from_cache", "") >>)
                EXCEPT !.pc = NextStatement("get_project"), !.project = Some(flags[inv[i].project_id])])
  /\ UNCHANGED << flags, stream, outcomes, metrics, received, uuids, submitted >>

\* The classification without its try/except: a classifier failure reaches the
\* caller. C11 fails for it.
ClassifyPropagates(i) ==
  /\ inv[i].pc = "classify"
  /\ \E ingest \in BOOLEAN, option \in BOOLEAN, answer \in {"True", "False", "raise"} :
       LET reads == IF ingest
                    THEN << Entry("features.has", SPAM_FILTER_INGEST, "True"),
                            Entry("get_option", AI_SPAM_DETECTION,
                                  IF option THEN "True" ELSE "False") >>
                    ELSE << Entry("features.has", SPAM_FILTER_INGEST, "False") >>
       IN Goto(i, IF ingest /\ option
                  THEN IF answer = "raise"
                       THEN Raise(inv[i], reads \o << Entry("call", "is_spam", answer) >>)
                       ELSE [Did(inv[i], reads \o << Entry("call", "is_spam", answer) >>)
                               EXCEPT !.pc = NextStatement("classify"),
                                      !.is_message_spam = answer]
                  ELSE [Did(inv[i], reads) EXCEPT !.pc = NextStatement("classify")])
  /\ UNCHANGED << flags, stream, outcomes, metrics, received, uuids, submitted >>

\* The classification gated by the organization's flag alone: the project's
\* option is read and ignored. C12 fails for it.
ClassifyUngated(i) ==
  /\ inv[i].pc = "classify"
  /\ \E ingest \in BOOLEAN, option \in BOOLEAN, answer \in {"True", "False", "raise"} :
       LET reads == IF ingest
                    THEN << Entry("features.has", SPAM_FILTER_INGEST, "True"),
                            Entry("get_option", AI_SPAM_DETECTION,
                                  IF option THEN "True" ELSE "False") >>
                    ELSE << Entry("features.has", SPAM_FILTER_INGEST, "False") >>
       IN Goto(i, IF ingest
                  THEN [Did(inv[i], reads \o << Entry("call", "is_spam", answer) >>)
                          EXCEPT !.pc = NextStatement("classify"),
                                 !.is_message_spam = IF answer = "raise" THEN "None" ELSE answer]
                  ELSE [Did(inv[i], reads) EXCEPT !.pc = NextStatement("classify")])
  /\ UNCHANGED << flags, stream, outcomes, metrics, received, uuids, submitted >>

\*     is_message_spam = None
\*     if features.has(...spam-filter-ingest...) and project.get_option(...):
\*         try: is_message_spam = is_spam(message)
\*         except Exception: logger.exception(...)
Classify(i) ==
  /\ inv[i].pc = "classify"
  /\ \E ingest \in BOOLEAN, option \in BOOLEAN, answer \in {"True", "False", "raise"} :
       LET reads == IF ingest
                    THEN << Entry("features.has", SPAM_FILTER_INGEST, "True"),
                            Entry("get_option", AI_SPAM_DETECTION,
                                  IF option THEN "True" ELSE "False") >>
                    ELSE << Entry("features.has", SPAM_FILTER_INGEST, "False") >>
       IN Goto(i, IF ingest /\ option
                  THEN [Did(inv[i], reads \o << Entry("call", "is_spam", answer) >>)
                          EXCEPT !.pc = NextStatement("classify"),
                                 !.is_message_spam = IF answer = "raise" THEN "None" ELSE answer]
                  ELSE [Did(inv[i], reads) EXCEPT !.pc = NextStatement("classify")])
  /\ UNCHANGED << flags, stream, outcomes, metrics, received, uuids, submitted >>

\* Ids are numbered: the values of uuid4().hex are the positive numbers drawn
\* from the counter `uuids`, the ids a caller supplies are CallerEventIds, and
\* EmptyId is the empty string.
EmptyId == 0
CallerEventIds == { 100 }
TruthyId(x) == ~IsNone(x) /\ Val(x) # EmptyId

\* The reading of the server's clock.
ServerTime == 30

\* A generator that starts over at every call: its values repeat. C17 fails
\* for it.
uuid4_repeating(drawn, n) == n

\*     uuid4().hex
\* The n-th value drawn after `drawn` values: one never drawn before.
uuid4(drawn, n) == drawn + n

\* The event id taken from a fresh uuid whatever the caller supplied. C16
\* fails for it.
EventIdFresh(event, fresh_id) == fresh_id

\*     event.get("event_id") or uuid4().hex
EventIdOr(event, fresh_id) ==
  IF TruthyId(event.event_id) THEN Val(event.event_id) ELSE fresh_id

\*     event["event_id"] = event.get("event_id") or uuid4().hex
\*     ... issue_fingerprint = [uuid4().hex]
\*     occurrence = IssueOccurrence(id=uuid4().hex, ...)
\*     now = datetime.now()
\*     event_data = {"project_id": project_id, "received": now.isoformat(),
\*                   "tags": event.get("tags", {}), **event}
\*     event_fixed = fix_for_issue_platform(event_data)
Build(i) ==
  LET l == inv[i]
      fresh == IF TruthyId(l.event.event_id) THEN 0 ELSE 1
      event_id == EventIdOr(l.event, uuid4(uuids, 1))
      evidence == make_evidence(Val(Val(l.event.contexts).feedback), l.source,
                                l.is_message_spam)
      occurrence == [ id |-> uuid4(uuids, fresh + 2),
                      event_id |-> EventIdOr([l.event EXCEPT !.event_id = Some(event_id)],
                                            uuid4(uuids, fresh + 3)),
                      project_id |-> l.project_id,
                      fingerprint |-> << uuid4(uuids, fresh + 1) >>,
                      subtitle |-> Message(l.event),
                      evidence_data |-> evidence.evidence_data,
                      evidence_display |-> evidence.evidence_display ]
      event == [l.event EXCEPT !.event_id = Some(event_id)]
      event_data == Merge([ project_id |-> Some(l.project_id),
                            received |-> Some(isoformat(ServerTime)),
                            tags |-> GetOr(event, "tags", Some(EmptyDict)) ],
                          event)
      fixed == fix_for_issue_platform(event_data)
      event_fixed == fixed.ret_event
      \* event_data is a copy of the event that shares its contexts and user dicts
      after == IF Get(event, "user") # None
               THEN [event EXCEPT !.contexts = fixed.event_data.contexts,
                                  !.user = fixed.event_data.user]
               ELSE [event EXCEPT !.contexts = fixed.event_data.contexts]
  IN /\ l.pc = "build"
     /\ IF IsNone(Message(l.event))
        THEN \* event["contexts"]["feedback"]["message"] raises KeyError
             /\ uuids' = uuids + fresh
             /\ Goto(i, Raise([l EXCEPT !.event = event,
                                         !.evidence = Some(evidence)],
                              << >>))
        ELSE /\ uuids' = uuids + fresh + 2
             /\ Goto(i, [Did(l, << Entry("build", "IssueOccurrence", "") >>)
                           EXCEPT !.pc = NextStatement("build"),
                                  !.event = after,
                                  !.evidence = Some(evidence),
                                  !.occurrence = Some(occurrence),
                                  !.event_fixed = Some(event_fixed)])
     /\ UNCHANGED << flags, stream, outcomes, metrics, received, submitted >>

\*     validate_issue_platform_event_schema(event_fixed)
Validate(i) ==
  /\ inv[i].pc = "validate"
  /\ \E valid_current \in BOOLEAN, valid_legacy \in BOOLEAN :
       LET r == validate_issue_platform_event_schema(valid_current, valid_legacy)
       IN /\ metrics' = Bump(metrics, r.did)
          /\ Goto(i, IF r.raised THEN Raise(inv[i], r.did)
                     ELSE [Did(inv[i], r.did) EXCEPT !.pc = NextStatement("validate")])
  /\ UNCHANGED << flags, stream, outcomes, received, uuids, submitted >>

\* Signal.send: a receiver's exception is not caught.
send(signal, project_id, ok) ==
  [ raised |-> ~ok,
    flags |-> IF ok THEN RecordFlag(flags, signal, project_id) ELSE flags,
    received |-> IF ok THEN [received EXCEPT ![<<signal, project_id>>] = @ + 1]
                 ELSE received,
    did |-> << Entry("send_robust", signal, IF ok THEN "ok" ELSE "receiver_failed") >> ]

\* The first signal sent with send instead of send_robust: C10 fails for it.
FirstFeedbackSend(i) ==
  LET l == inv[i]
  IN /\ l.pc = "first_feedback"
     /\ IF ~Val(l.project).has_feedbacks
        THEN \E ok \in BOOLEAN :
               LET r == send(FIRST_FEEDBACK, l.project_id, ok)
               IN /\ flags' = r.flags
                  /\ received' = r.received
                  /\ Goto(i, IF r.raised THEN Raise(l, r.did)
                             ELSE [Did(l, r.did) EXCEPT !.pc = NextStatement("first_feedback")])
        ELSE /\ Goto(i, [l EXCEPT !.pc = NextStatement("first_feedback")])
             /\ UNCHANGED << flags, received >>
     /\ UNCHANGED << stream, outcomes, metrics, uuids, submitted >>

\*     if not project.flags.has_feedbacks:
\*         first_feedback_received.send_robust(project=project, sender=Project)
FirstFeedback(i) ==
  LET l == inv[i]
  IN /\ l.pc = "first_feedback"
     /\ IF ~Val(l.project).has_feedbacks
        THEN \E ok \in BOOLEAN :
               LET r == send_robust(FIRST_FEEDBACK, l.project_id, ok)
               IN /\ flags' = r.flags
                  /\ received' = r.received
                  /\ Goto(i, IF r.raised THEN Raise(l, r.did)
                             ELSE [Did(l, r.did) EXCEPT !.pc = NextStatement("first_feedback")])
        ELSE /\ Goto(i, [l EXCEPT !.pc = NextStatement("first_feedback")])
             /\ UNCHANGED << flags, received >>
     /\ UNCHANGED << stream, outcomes, metrics, uuids, submitted >>

\* The second signal sent whatever the source, when has_new_feedbacks is unset:
\* C22 fails for it.
FirstNewFeedbackAnySource(i) ==
  LET l == inv[i]
  IN /\ l.pc = "first_new_feedback"
     /\ IF ~Val(l.project).has_new_feedbacks
        THEN \E ok \in BOOLEAN :
               LET r == send_robust(FIRST_NEW_FEEDBACK, l.project_id, ok)
               IN /\ flags' = r.flags
                  /\ received' = r.received
                  /\ Goto(i, IF r.raised THEN Raise(l, r.did)
                             ELSE [Did(l, r.did) EXCEPT !.pc = NextStatement("first_new_feedback")])
        ELSE /\ Goto(i, [l EXCEPT !.pc = NextStatement("first_new_feedback")])
             /\ UNCHANGED << flags, received >>
     /\ UNCHANGED << stream, outcomes, metrics, uuids, submitted >>

\* The second signal sent without reading has_new_feedbacks: C8 fails for it.
FirstNewFeedbackUnlatched(i) ==
  LET l == inv[i]
  IN /\ l.pc = "first_new_feedback"
     /\ IF l.source \in { NEW_FEEDBACK_ENVELOPE, NEW_FEEDBACK_DJANGO_ENDPOINT }
        THEN \E ok \in BOOLEAN :
               LET r == send_robust(FIRST_NEW_FEEDBACK, l.project_id, ok)
               IN /\ flags' = r.flags
                  /\ received' = r.received
                  /\ Goto(i, IF r.raised THEN Raise(l, r.did)
                             ELSE [Did(l, r.did) EXCEPT !.pc = NextStatement("first_new_feedback")])
        ELSE /\ Goto(i, [l EXCEPT !.pc = NextStatement("first_new_feedback")])
             /\ UNCHANGED << flags, received >>
     /\ UNCHANGED << stream, outcomes, metrics, uuids, submitted >>

\*     if (source in [NEW_FEEDBACK_ENVELOPE, NEW_FEEDBACK_DJANGO_ENDPOINT]
\*         and not project.flags.has_new_feedbacks):
\*         first_new_feedback_received.send_robust(project=project, sender=Project)
FirstNewFeedback(i) ==
  LET l == inv[i]
  IN /\ l.pc = "first_new_feedback"
     /\ IF /\ l.source \in { NEW_FEEDBACK_ENVELOPE, NEW_FEEDBACK_DJANGO_ENDPOINT }
           /\ ~Val(l.project).has_new_feedbacks
        THEN \E ok \in BOOLEAN :
               LET r == send_robust(FIRST_NEW_FEEDBACK, l.project_id, ok)
               IN /\ flags' = r.flags
                  /\ received' = r.received
                  /\ Goto(i, IF r.raised THEN Raise(l, r.did)
                             ELSE [Did(l, r.did) EXCEPT !.pc = NextStatement("first_new_feedback")])
        ELSE /\ Goto(i, [l EXCEPT !.pc = NextStatement("first_new_feedback")])
             /\ UNCHANGED << flags, received >>
     /\ UNCHANGED << stream, outcomes, metrics, uuids, submitted >>

\* The occurrence produced twice: C3 fails for it.
ProduceTwice(i) ==
  LET l == inv[i]
      record == [ payload_type |-> "OCCURRENCE", occurrence |-> Val(l.occurrence),
                  event_data |-> Val(l.event_fixed) ]
  IN /\ l.pc = "produce"
     /\ \E ok \in BOOLEAN :
          IF ok
          THEN /\ stream' = Append(Append(stream, record), record)
               /\ Goto(i, [Did(l, << Entry("produce", "OCCURRENCE", "ok"),
                                     Entry("produce", "OCCURRENCE", "ok") >>)
                             EXCEPT !.pc = NextStatement("produce")])
          ELSE /\ stream' = stream
               /\ Goto(i, Raise(l, << Entry("produce", "OCCURRENCE", "failed") >>))
     /\ UNCHANGED << flags, outcomes, metrics, received, uuids, submitted >>

\* The produce call with its failure swallowed: C6 fails for it.
ProduceSwallowed(i) ==
  LET l == inv[i]
      record == [ payload_type |-> "OCCURRENCE", occurrence |-> Val(l.occurrence),
                  event_data |-> Val(l.event_fixed) ]
  IN /\ l.pc = "produce"
     /\ \E ok \in BOOLEAN :
          /\ stream' = IF ok THEN Append(stream, record) ELSE stream
          /\ Goto(i, [Did(l, << Entry("produce", "OCCURRENCE",
                                      IF ok THEN "ok" ELSE "failed") >>)
                        EXCEPT !.pc = NextStatement("produce")])
     /\ UNCHANGED << flags, outcomes, metrics, received, uuids, submitted >>

\*     produce_occurrence_to_kafka(payload_type=PayloadType.OCCURRENCE,
\*                                 occurrence=occurrence, event_data=event_fixed)
\* `ok` is whether the produce call returns; when it raises nothing is published.
Produce(i) ==
  LET l == inv[i]
      record == [ payload_type |-> "OCCURRENCE", occurrence |-> Val(l.occurrence),
                  event_data |-> Val(l.event_fixed) ]
  IN /\ l.pc = "produce"
     /\ \E ok \in BOOLEAN :
          IF ok
          THEN /\ stream' = Append(stream, record)
               /\ Goto(i, [Did(l, << Entry("produce", "OCCURRENCE", "ok") >>)
                             EXCEPT !.pc = NextStatement("produce")])
          ELSE /\ stream' = stream
               /\ Goto(i, Raise(l, << Entry("produce", "OCCURRENCE", "failed") >>))
     /\ UNCHANGED << flags, outcomes, metrics, received, uuids, submitted >>

\* auto_ignore_spam_feedbacks without its feature check: the flag is read and
\* the status change is published whatever it says. C13 fails for it.
auto_ignore_spam_feedbacks_unflagged(i) ==
  LET l == inv[i]
      status_change == [ payload_type |-> "STATUS_CHANGE",
                         fingerprint |-> Val(l.occurrence).fingerprint,
                         project_id |-> l.project_id,
                         new_status |-> "IGNORED", new_substatus |-> "FOREVER" ]
  IN \E actions \in BOOLEAN, ok \in BOOLEAN :
       LET read == << Entry("features.has", SPAM_FILTER_ACTIONS,
                            IF actions THEN "True" ELSE "False") >>
           incr == << Incr(SET_IGNORED, "") >>
       IN /\ metrics' = Bump(metrics, incr)
          /\ IF ok
             THEN /\ stream' = Append(stream, status_change)
                  /\ Goto(i, [Did(l, read \o incr
                                     \o << Entry("produce", "STATUS_CHANGE", "ok") >>)
                                EXCEPT !.pc = NextStatement("auto_ignore")])
             ELSE /\ stream' = stream
                  /\ Goto(i, Raise(l, read \o incr
                                     \o << Entry("produce", "STATUS_CHANGE", "failed") >>))

\*     if is_message_spam:
\*         auto_ignore_spam_feedbacks(project, issue_fingerprint)
\* def auto_ignore_spam_feedbacks(project, issue_fingerprint):
\*     if features.has(...spam-filter-actions...):
\*         metrics.incr("feedback.spam-detection-actions.set-ignored")
\*         produce_occurrence_to_kafka(payload_type=PayloadType.STATUS_CHANGE, ...)
auto_ignore_spam_feedbacks(i) ==
  LET l == inv[i]
      status_change == [ payload_type |-> "STATUS_CHANGE",
                         fingerprint |-> Val(l.occurrence).fingerprint,
                         project_id |-> l.project_id,
                         new_status |-> "IGNORED", new_substatus |-> "FOREVER" ]
  IN \E actions \in BOOLEAN, ok \in BOOLEAN :
       LET read == << Entry("features.has", SPAM_FILTER_ACTIONS,
                            IF actions THEN "True" ELSE "False") >>
           incr == << Incr(SET_IGNORED, "") >>
       IN IF ~actions
          THEN /\ Goto(i, [Did(l, read) EXCEPT !.pc = NextStatement("auto_ignore")])
               /\ UNCHANGED << stream, metrics >>
          ELSE /\ metrics' = Bump(metrics, incr)
               /\ IF ok
                  THEN /\ stream' = Append(stream, status_change)
                       /\ Goto(i, [Did(l, read \o incr
                                          \o << Entry("produce", "STATUS_CHANGE", "ok") >>)
                                     EXCEPT !.pc = NextStatement("auto_ignore")])
                  ELSE /\ stream' = stream
                       /\ Goto(i, Raise(l, read \o incr
                                          \o << Entry("produce", "STATUS_CHANGE", "failed") >>))

AutoIgnore(i) ==
  /\ inv[i].pc = "auto_ignore"
  /\ IF inv[i].is_message_spam = "True"
     THEN auto_ignore_spam_feedbacks(i)
     ELSE /\ Goto(i, [inv[i] EXCEPT !.pc = NextStatement("auto_ignore")])
          /\ UNCHANGED << stream, metrics >>
  /\ UNCHANGED << flags, outcomes, received, uuids, submitted >>

\*     metrics.incr("feedback.create_feedback_issue.produced_occurrence", ...)
\*     track_outcome(..., outcome=Outcome.ACCEPTED, ..., category=USER_REPORT_V2, quantity=1)
TrackOutcome(i) ==
  LET l == inv[i]
      incr == << Incr(PRODUCED_OCCURRENCE, l.source) >>
      outcome == [ project_id |-> l.project_id, key_id |-> None, outcome |-> "ACCEPTED",
                   reason |-> None, event_id |-> Val(l.event.event_id),
                   category |-> "USER_REPORT_V2", quantity |-> 1 ]
  IN /\ l.pc = "track_outcome"
     /\ metrics' = Bump(metrics, incr)
     /\ outcomes' = Append(outcomes, outcome)
     /\ Goto(i, [Did(l, incr \o << Entry("call", "track_outcome", "ACCEPTED") >>)
                   EXCEPT !.pc = NextStatement("track_outcome")])
     /\ UNCHANGED << flags, stream, received, uuids, submitted >>

\*     track_outcome(...)
\* raising: the produced_occurrence counter has been incremented, no outcome is
\* recorded and the exception leaves create_feedback_issue. Taken only where a
\* caller that catches it is modelled (shim_to_feedback).
TrackOutcomeFails(i) ==
  LET l == inv[i]
      incr == << Incr(PRODUCED_OCCURRENCE, l.source) >>
  IN /\ l.pc = "track_outcome"
     /\ metrics' = Bump(metrics, incr)
     /\ Goto(i, Raise(l, incr \o << Entry("call", "track_outcome", "failed") >>))
     /\ UNCHANGED << flags, stream, outcomes, received, uuids, submitted >>

\* The call is over (it returned, or its exception reached the caller): the
\* invocation's locals are dropped and the slot can serve another call.
Finished(i) == inv[i].pc \in {"returned", "raised"}

Discard(i) ==
  /\ Finished(i)
  /\ IF inv[i].shim = None THEN TRUE ELSE Val(inv[i].shim).pc = "returned"
  /\ Goto(i, Idle)
  /\ UNCHANGED << flags, stream, outcomes, metrics, received, uuids, submitted >>

Step(i) ==
  \/ Filter(i)
  \/ GetProject(i)
  \/ Classify(i)
  \/ Build(i)
  \/ Validate(i)
  \/ FirstFeedback(i)
  \/ FirstNewFeedback(i)
  \/ Produce(i)
  \/ AutoIgnore(i)
  \/ TrackOutcome(i)
  \/ Discard(i)

\* Submissions processed one after another: a call starts when no other runs.
EnterAlone(i, event, project_id, source) ==
  /\ \A j \in Slots : inv[j].pc = "idle"
  /\ i = 1
  /\ Enter(i, event, project_id, source)

Next ==
  \E i \in Slots :
    \/ \E event \in PipelineEvents, project_id \in ProjectIds, source \in FeedbackCreationSource :
         EnterAlone(i, event, project_id, source)
    \/ Step(i)

Spec == Init /\ [][Next]_vars

\* Submissions processed concurrently: a call may start while another runs,
\* in the lowest free slot.
EnterConcurrently(i, event, project_id, source) ==
  /\ \A j \in 1..(i - 1) : inv[j].pc # "idle"
  /\ Enter(i, event, project_id, source)

\* The concurrent calls are for one project, with a message that passes the
\* filter or a blank one, from one source of each category.
ConcEvents ==
  { MkEvent(MkContexts(MkFeedback(Some(m))), None) : m \in { <<"a">>, <<" ">> } }
ConcSources == { NEW_FEEDBACK_ENVELOPE, USER_REPORT_ENVELOPE }

NextConc ==
  \E i \in Slots :
    \/ \E event \in ConcEvents, source \in ConcSources :
         EnterConcurrently(i, event, 1, source)
    \/ Step(i)

SpecConc == Init /\ [][NextConc]_vars

\* should_filter_feedback on its own: one call, on any event of FilterEvents.
NextFilter ==
  \/ \E event \in FilterEvents : EnterAlone(1, event, 1, NEW_FEEDBACK_ENVELOPE)
  \/ Filter(1)

SpecFilter == Init /\ [][NextFilter]_vars

\* ---------------------------------------------------------- shim_to_feedback
\* The legacy user reports: name, email, comments, event_id and level, each
\* possibly absent; the correlated events, with or without a replay context;
\* the readings of the clock.
Reports ==
  [ name : { None, Some(<< >>), Some(<<"n">>) },
    email : { None, Some(<<"e">>) },
    comments : { None, Some(<<"a">>), Some(<<" ">>) },
    event_id : { None, Some(<< >>), Some(<<"r">>) },
    level : { None, Some("error") } ]

CorrelatedEvents ==
  { [ event_id |-> <<"o">>, replay |-> replay, timestamp |-> 1, level |-> "warning",
      platform |-> "python", environment |-> "staging", tags |-> << <<"k", "v">> >> ] :
      replay \in { None, Some([replay_id |-> None]), Some([replay_id |-> Some(<<"p">>)]) } }

Times == { 10, 20 }

\* shim_to_feedback preferring the event_id of the report to the id of the
\* correlated event. C23 fails for it.
shim_feedback_event_report_id(report, event, now) ==
  IF Get(report, "email") = None \/ Get(report, "comments") = None
  THEN [ raised |-> TRUE, did |-> << >>, feedback_event |-> None ]
  ELSE
    LET feedback == [ name |-> IF Get(report, "name") = None THEN Some(<< >>)
                               ELSE Get(report, "name"),
                      contact_email |-> Get(report, "email"),
                      message |-> Get(report, "comments") ]
    IN IF event # None
       THEN LET e == Val(event)
                associated == Put(feedback, "associated_event_id",
                                 IF Truthy(Get(report, "event_id"))
                                 THEN Get(report, "event_id") ELSE Some(e.event_id))
                contexts ==
                  IF Truthy(e.replay) /\ Truthy(Get(Val(e.replay), "replay_id"))
                  THEN [ feedback |-> Some(Put(associated, "replay_id",
                                               Get(Val(e.replay), "replay_id"))),
                         replay |-> e.replay ]
                  ELSE [ feedback |-> Some(associated) ]
            IN [ raised |-> FALSE, did |-> << >>,
                 feedback_event |->
                   Some([ contexts |-> Some(contexts), event_id |-> None,
                          timestamp |-> Some(e.timestamp), level |-> Some(e.level),
                          platform |-> Some(e.platform),
                          environment |-> Some(e.environment),
                          tags |-> Some(e.tags) ]) ]
       ELSE LET associated ==
                  IF Truthy(Get(report, "event_id"))
                  THEN Put(feedback, "associated_event_id", Get(report, "event_id"))
                  ELSE feedback
            IN [ raised |-> FALSE, did |-> << Incr(MISSING_EVENT, "") >>,
                 feedback_event |->
                   Some([ contexts |-> Some([ feedback |-> Some(associated) ]),
                          event_id |-> None,
                          timestamp |-> Some(now), platform |-> Some("other"),
                          level |-> IF Get(report, "level") = None THEN Some("info")
                                    ELSE Get(report, "level") ]) ]

\* shim_to_feedback with a missing event fatal: nothing is passed on. C18
\* fails for it.
shim_feedback_event_strict(report, event, now) ==
  [ raised |-> TRUE, did |-> << >>, feedback_event |-> None ]

\*     feedback_event = {"contexts": {"feedback": {"name": report.get("name", ""),
\*         "contact_email": report["email"], "message": report["comments"]}}}
\*     if event: ... else: ...
\* The event shim_to_feedback builds, with what it did on the way; `raised`
\* when report["email"] or report["comments"] raises KeyError.
shim_feedback_event(report, event, now) ==
  IF Get(report, "email") = None \/ Get(report, "comments") = None
  THEN [ raised |-> TRUE, did |-> << >>, feedback_event |-> None ]
  ELSE
    LET feedback == [ name |-> IF Get(report, "name") = None THEN Some(<< >>)
                               ELSE Get(report, "name"),
                      contact_email |-> Get(report, "email"),
                      message |-> Get(report, "comments") ]
    IN IF event # None
       THEN LET e == Val(event)
                associated == Put(feedback, "associated_event_id", Some(e.event_id))
                contexts ==
                  IF Truthy(e.replay) /\ Truthy(Get(Val(e.replay), "replay_id"))
                  THEN [ feedback |-> Some(Put(associated, "replay_id",
                                               Get(Val(e.replay), "replay_id"))),
                         replay |-> e.replay ]
                  ELSE [ feedback |-> Some(associated) ]
            IN [ raised |-> FALSE, did |-> << >>,
                 feedback_event |->
                   Some([ contexts |-> Some(contexts), event_id |-> None,
                          timestamp |-> Some(e.timestamp), level |-> Some(e.level),
                          platform |-> Some(e.platform),
                          environment |-> Some(e.environment),
                          tags |-> Some(e.tags) ]) ]
       ELSE LET associated ==
                  IF Truthy(Get(report, "event_id"))
                  THEN Put(feedback, "associated_event_id", Get(report, "event_id"))
                  ELSE feedback
            IN [ raised |-> FALSE, did |-> << Incr(MISSING_EVENT, "") >>,
                 feedback_event |->
                   Some([ contexts |-> Some([ feedback |-> Some(associated) ]),
                          event_id |-> None,
                          timestamp |-> Some(now), platform |-> Some("other"),
                          level |-> IF Get(report, "level") = None THEN Some("info")
                                    ELSE Get(report, "level") ]) ]

\* def shim_to_feedback(report, event, project, source):
\*     try: feedback_event = ...
\* up to the call of create_feedback_issue; a KeyError is caught and logged.
ShimCall(i, report, event, project_id, source) ==
  /\ inv[i].pc = "idle"
  /\ inv[i].shim = None
  /\ \E now \in Times :
       LET r == shim_feedback_event(report, event, now)
           frame == [ pc |-> "try", report |-> report, event |-> event, now |-> now,
                      project_id |-> project_id, source |-> source,
                      feedback_event |-> r.feedback_event, trace |-> r.did ]
       IN /\ metrics' = Bump(metrics, r.did)
          /\ Goto(i, [inv[i] EXCEPT !.shim =
                        Some(IF r.raised
                             THEN [frame EXCEPT !.pc = "returned",
                                                !.trace = << Entry("log", "exception", "") >>]
                             ELSE frame)])
  /\ UNCHANGED << flags, stream, outcomes, received, uuids, submitted >>

\*         create_feedback_issue(feedback_event, project.id, source)
ShimCreate(i) ==
  /\ inv[i].shim # None
  /\ Val(inv[i].shim).pc = "try"
  /\ Enter(i, Val(Val(inv[i].shim).feedback_event), Val(inv[i].shim).project_id,
           Val(inv[i].shim).source)

\* shim_to_feedback without its except clause: an exception of
\* create_feedback_issue reaches the caller, unlogged. C24 fails for it.
ShimReturnPropagates(i) ==
  /\ inv[i].shim # None
  /\ Val(inv[i].shim).pc = "try"
  /\ Finished(i)
  /\ Goto(i, [inv[i] EXCEPT !.shim =
                Some([Val(inv[i].shim) EXCEPT
                        !.pc = IF inv[i].pc = "raised" THEN "raised" ELSE "returned"])])
  /\ UNCHANGED << flags, stream, outcomes, metrics, received, uuids, submitted >>

\*     except Exception:
\*         logger.exception(...)
\* create_feedback_issue is over: shim_to_feedback returns, having logged the
\* exception if there was one.
ShimReturn(i) ==
  /\ inv[i].shim # None
  /\ Val(inv[i].shim).pc = "try"
  /\ Finished(i)
  /\ Goto(i, [inv[i] EXCEPT !.shim =
                Some([Val(inv[i].shim) EXCEPT
                        !.pc = "returned",
                        !.trace = IF inv[i].pc = "raised"
                                  THEN @ \o << Entry("log", "exception", "") >>
                                  ELSE @])])
  /\ UNCHANGED << flags, stream, outcomes, metrics, received, uuids, submitted >>

\* One call of shim_to_feedback, for the first project.
ShimAlone(i, report, event, source) ==
  /\ \A j \in Slots : inv[j].pc = "idle" /\ inv[j].shim = None
  /\ i = 1
  /\ submitted = 0
  /\ ShimCall(i, report, event, 1, source)

NextShim ==
  \E i \in Slots :
    \/ \E report \in Reports, event \in { None } \cup { Some(e) : e \in CorrelatedEvents },
          source \in ConcSources :
         ShimAlone(i, report, event, source)
    \/ ShimCreate(i)
    \/ ShimReturn(i)
    \/ Step(i)
    \/ TrackOutcomeFails(i)

SpecShim == Init /\ [][NextShim]_vars

\* ------------------------------------------- events with all that is fixed
\* A dict without the keys whose value is None.
Only(d) == [k \in { k \in DOMAIN d : d[k] # None } |-> d[k]]

FixFeedbacks ==
  { Only([ message |-> Some(<<"a">>), contact_email |-> contact_email,
           replay_id |-> replay_id ]) :
      contact_email \in { None, Some(<<"c">>) },
      replay_id \in { None, Some(<< >>), Some(<<"q">>) } }

FixContexts ==
  { Only([ feedback |-> Some(feedback), replay |-> replay ]) :
      feedback \in FixFeedbacks,
      replay \in { None, Some(EmptyDict), Some([replay_id |-> Some(<<"p">>)]) } }

FixUsers ==
  { None } \cup
  { Some(Only([ name |-> IF named THEN Some(<<"n">>) ELSE None,
                isStaff |-> IF named THEN Some(TRUE) ELSE None,
                id |-> id, email |-> email ])) :
      named \in BOOLEAN,
      id \in { None, Some([int |-> 7]), Some([str |-> <<"7">>]) },
      email \in { None, Some(<< >>), Some(<<"u">>) } }

\* The other keys fix_for_issue_platform reads, all absent or all present.
FixExtras ==
  { EmptyDict,
    [ dist |-> Some(<<"d">>), platform |-> Some("python"), level |-> Some("error"),
      environment |-> Some("staging"), sdk |-> Some([name |-> Some(<<"s">>)]),
      request |-> Some([url |-> Some(<<"u">>)]), tags |-> Some(<< <<"k", "v">> >>) ] }

FixEvents ==
  { Merge(Merge(MkEvent(Some(contexts), None), Only([user |-> user])), extras) :
      contexts \in FixContexts, user \in FixUsers, extras \in FixExtras }

\* One submission, of any event of FixEvents.
NextFix ==
  \E i \in Slots :
    \/ \E event \in FixEvents :
         submitted = 0 /\ EnterAlone(i, event, 1, NEW_FEEDBACK_ENVELOPE)
    \/ Step(i)

SpecFix == Init /\ [][NextFix]_vars

\* ------------------------------------------------------- reading the record
Count(tr, op, name, tag) ==
  Cardinality({ k \in 1..Len(tr) : tr[k] = Entry(op, name, tag) })

CountNamed(tr, op, name) ==
  Cardinality({ k \in 1..Len(tr) : tr[k].op = op /\ tr[k].name = name })

CountOp(tr, op) == Cardinality({ k \in 1..Len(tr) : tr[k].op = op })

Has(tr, op, name, tag) == Count(tr, op, name, tag) > 0
HasNamed(tr, op, name) == CountNamed(tr, op, name) > 0

FilterReasons == { "missing_context", "unreal.unattended", "empty" }

\* The filter has run in slot i / has run and rejected the event.
Filtered(i) == HasNamed(inv[i].trace, "call", "should_filter_feedback")
Rejected(i) == Filtered(i) /\ inv[i].pc = "returned"
                 /\ ~HasNamed(inv[i].trace, "call", "track_outcome")

\* --------------------------------------------------------------------- C1
\* The outcome the three rules of the Filter Stage prescribe for an event, in
\* their order: the reason of the first rule that matches, "accept" if none.
Prescribed(event) ==
  IF \/ event.contexts = None
     \/ Val(event.contexts).feedback = None
     \/ Val(Val(event.contexts).feedback).message = None
  THEN "missing_context"
  ELSE LET message == Val(Val(Val(event.contexts).feedback).message)
       IN IF message = UNREAL_FEEDBACK_UNATTENDED_MESSAGE THEN "unreal.unattended"
          ELSE IF \A k \in 1..Len(message) : message[k] \in Whitespace THEN "empty"
          ELSE "accept"

\* C1: should_filter_feedback rejects exactly when the message is missing, is
\* the unattended sentinel, or is blank after trimming; a rejection increments
\* the filtered counter once, with the reason of the first rule that matches,
\* and an accepted event increments no filtered counter.
C1_FilterRejectsExactly ==
  \A i \in Slots :
    Filtered(i) =>
      LET want == Prescribed(inv[i].event)
          tr == inv[i].trace
      IN /\ Rejected(i) <=> want \in FilterReasons
         /\ CountNamed(tr, "incr", FILTERED) = IF want \in FilterReasons THEN 1 ELSE 0
         /\ \A r \in FilterReasons :
              /\ Count(tr, "incr", FILTERED, r) = IF r = want THEN 1 ELSE 0
              /\ CopiesIn(<< FILTERED, r >>, metrics) = IF r = want THEN 1 ELSE 0

\* A message of blanks only has been rejected as empty.
C1_Witness ==
  \E i \in Slots :
    /\ Rejected(i)
    /\ Message(inv[i].event) # None
    /\ Len(Val(Message(inv[i].event))) = MaxFilterMsgLen
    /\ Has(inv[i].trace, "incr", FILTERED, "empty")

\* --------------------------------------------------------------------- C2
\* The occurrence records of the durable stream.
Occurrences == { k \in 1..Len(stream) : stream[k].payload_type = "OCCURRENCE" }
StatusChanges == { k \in 1..Len(stream) : stream[k].payload_type = "STATUS_CHANGE" }

Blank(message) == \A k \in 1..Len(message) : message[k] \in Whitespace

\* C2: a call whose event the filter rejects returns having done nothing but
\* increment counters (no project lookup, classifier call, signal, publish,
\* status change or outcome), and every occurrence in the durable stream has a
\* message that is present, is not the unattended sentinel and is not blank.
C2_RejectedDoesNothing ==
  /\ \A i \in Slots :
       (Filtered(i) /\ Prescribed(inv[i].event) \in FilterReasons) =>
         /\ inv[i].pc = "returned"
         /\ \A k \in 1..Len(inv[i].trace) :
              \/ inv[i].trace[k].op = "incr"
              \/ inv[i].trace[k] = Entry("call", "should_filter_feedback", "")
         /\ inv[i].project = None
         /\ inv[i].occurrence = None
         /\ inv[i].event_fixed = None
  /\ \A k \in Occurrences :
       /\ stream[k].occurrence.subtitle # None
       /\ Val(stream[k].occurrence.subtitle) # UNREAL_FEEDBACK_UNATTENDED_MESSAGE
       /\ ~Blank(Val(stream[k].occurrence.subtitle))

\* A rejected call has returned after an earlier call published its occurrence.
C2_Witness ==
  \E i \in Slots :
    /\ Rejected(i)
    /\ Occurrences # {}
    /\ Len(outcomes) = 1

\* --------------------------------------------------------------------- C3
\* The occurrence records in the stream that carry the occurrence built in slot i.
PublishedBy(i) ==
  IF inv[i].occurrence = None THEN {}
  ELSE { k \in Occurrences : stream[k].occurrence.id = Val(inv[i].occurrence).id }

Validated(i) ==
  \/ Has(inv[i].trace, "jsonschema.validate", "current", "valid")
  \/ Has(inv[i].trace, "jsonschema.validate", "legacy", "valid")

PastProduce(i) ==
  HasNamed(inv[i].trace, "produce", "OCCURRENCE")

\* C3: a call publishes its occurrence exactly once when the event passes the
\* filter, the issue-platform event validates and the produce call succeeds; no
\* call produces its occurrence more than once, and no occurrence is in the
\* stream twice.
C3_PublishedExactlyOnce ==
  /\ \A i \in Slots :
       /\ CountNamed(inv[i].trace, "produce", "OCCURRENCE") <= 1
       /\ Cardinality(PublishedBy(i)) =
            IF Has(inv[i].trace, "produce", "OCCURRENCE", "ok") THEN 1 ELSE 0
       /\ (Filtered(i) /\ ~Rejected(i) /\ Validated(i) /\ Finished(i)) => PastProduce(i)
       /\ (Rejected(i) \/ (Finished(i) /\ ~Validated(i))) => ~PastProduce(i)
  /\ \A k, l \in Occurrences : stream[k].occurrence.id = stream[l].occurrence.id => k = l
  /\ Cardinality(Occurrences) <= submitted

\* A spam-flagged call has finished with its occurrence and its status change
\* in the stream.
C3_Witness ==
  \E i \in Slots :
    /\ inv[i].pc = "returned"
    /\ Cardinality(PublishedBy(i)) = 1
    /\ Has(inv[i].trace, "produce", "STATUS_CHANGE", "ok")

\* --------------------------------------------------------------------- C4
\* The stage of the pipeline an entry of a call's record belongs to ("" for
\* the entry counter, the project lookup and a raise, which the list of
\* stages does not name).
StageOf(e) ==
  IF e.name = "should_filter_feedback" \/ e.name = FILTERED THEN "filter"
  ELSE IF e.name \in { SPAM_FILTER_INGEST, AI_SPAM_DETECTION, "is_spam" } THEN "classify"
  ELSE IF e.op = "build" THEN "build"
  ELSE IF e.op = "jsonschema.validate" \/ e.name = INVALID_SCHEMA THEN "validate"
  ELSE IF e.op = "send_robust" THEN "first-seen-signal"
  ELSE IF e.op = "produce" /\ e.name = "OCCURRENCE" THEN "publish"
  ELSE IF e.name \in { SPAM_FILTER_ACTIONS, SET_IGNORED, "STATUS_CHANGE" }
       THEN "spam-triage-signal"
  ELSE IF e.name \in { PRODUCED_OCCURRENCE, "track_outcome" } THEN "outcome-record"
  ELSE ""

Rank(order, stage) == CHOOSE k \in 1..Len(order) : order[k] = stage

InOrder(tr, order) ==
  \A k, l \in 1..Len(tr) :
    (k < l /\ StageOf(tr[k]) # "" /\ StageOf(tr[l]) # "") =>
      Rank(order, StageOf(tr[k])) <= Rank(order, StageOf(tr[l]))

\* C4 as stated: within one call the side effects occur in the order filter,
\* classify, build, validate, publish, first-seen-signal, spam-triage-signal,
\* outcome-record.
C4_StatedOrder ==
  \A i \in Slots :
    InOrder(inv[i].trace,
            << "filter", "classify", "build", "validate", "publish",
               "first-seen-signal", "spam-triage-signal", "outcome-record" >>)

\* C4, amended: within one call the side effects occur in the order filter,
\* classify, build, validate, first-seen-signal, publish, spam-triage-signal,
\* outcome-record (the first-seen signals are sent before the publish).
C4_SideEffectOrder ==
  \A i \in Slots :
    InOrder(inv[i].trace,
            << "filter", "classify", "build", "validate", "first-seen-signal",
               "publish", "spam-triage-signal", "outcome-record" >>)

\* A call has gone through every stage of the list.
C4_Witness ==
  \E i \in Slots :
    { StageOf(inv[i].trace[k]) : k \in 1..Len(inv[i].trace) } =
      { "", "filter", "classify", "build", "validate", "first-seen-signal", "publish",
        "spam-triage-signal", "outcome-record" }

\* --------------------------------------------------------------------- C5
\* C5: a call records at most one outcome, and a call that is over and whose
\* occurrence was published has recorded exactly one, whatever the verdict,
\* the spam-actions flag and the result of the status-change publish.
C5_OutcomePerPublishedOccurrence ==
  \A i \in Slots :
    /\ CountNamed(inv[i].trace, "call", "track_outcome") <= 1
    /\ (Finished(i) /\ Has(inv[i].trace, "produce", "OCCURRENCE", "ok")) =>
         CountNamed(inv[i].trace, "call", "track_outcome") = 1

\* --------------------------------------------------------------------- C6
RaisedLast(i) ==
  /\ inv[i].pc = "raised"
  /\ inv[i].trace[Len(inv[i].trace)].op = "raise"

\* C6: when the produce call of the occurrence fails, the failure reaches the
\* caller and the call has written no outcome, published no status change and
\* has not incremented the produced_occurrence counter; nothing of it is in
\* the stream.
C6_PublishFailurePropagates ==
  \A i \in Slots :
    Has(inv[i].trace, "produce", "OCCURRENCE", "failed") =>
      /\ RaisedLast(i)
      /\ inv[i].trace[Len(inv[i].trace) - 1] = Entry("produce", "OCCURRENCE", "failed")
      /\ ~HasNamed(inv[i].trace, "call", "track_outcome")
      /\ ~HasNamed(inv[i].trace, "produce", "STATUS_CHANGE")
      /\ ~HasNamed(inv[i].trace, "incr", PRODUCED_OCCURRENCE)
      /\ ~HasNamed(inv[i].trace, "incr", SET_IGNORED)
      /\ PublishedBy(i) = {}
      /\ \A k \in StatusChanges :
           stream[k].fingerprint # Val(inv[i].occurrence).fingerprint

\* The produce call failed for a message the classifier called spam.
C6_Witness ==
  \E i \in Slots :
    /\ Has(inv[i].trace, "produce", "OCCURRENCE", "failed")
    /\ inv[i].is_message_spam = "True"
    /\ inv[i].pc = "raised"

\* --------------------------------------------------------------------- C7
\* C7: the event is accepted when it is valid against the current schema or,
\* failing that, against the legacy schema; when it is invalid against both the
\* invalid_schema counter is incremented once, the error reaches the caller and
\* the call sends no first-seen signal, publishes nothing and records no outcome.
C7_SchemaValidation ==
  \A i \in Slots :
    LET tr == inv[i].trace
        current_valid == Has(tr, "jsonschema.validate", "current", "valid")
        current_invalid == Has(tr, "jsonschema.validate", "current", "invalid")
        legacy_valid == Has(tr, "jsonschema.validate", "legacy", "valid")
        legacy_invalid == Has(tr, "jsonschema.validate", "legacy", "invalid")
    IN (current_valid \/ current_invalid) =>
         /\ current_invalid => (legacy_valid \/ legacy_invalid)
         /\ (current_valid \/ legacy_valid) =>
              /\ ~HasNamed(tr, "incr", INVALID_SCHEMA)
              /\ inv[i].pc = "raised" => HasNamed(tr, "produce", "OCCURRENCE")
         /\ (current_invalid /\ legacy_invalid) =>
              /\ CountNamed(tr, "incr", INVALID_SCHEMA) = 1
              /\ RaisedLast(i)
              /\ CountOp(tr, "send_robust") = 0
              /\ CountOp(tr, "produce") = 0
              /\ ~HasNamed(tr, "call", "track_outcome")
              /\ PublishedBy(i) = {}

\* An event invalid against the current schema and valid against the legacy
\* one has been published.
C7_Witness ==
  \E i \in Slots :
    /\ Has(inv[i].trace, "jsonschema.validate", "legacy", "valid")
    /\ Cardinality(PublishedBy(i)) = 1

\* --------------------------------------------------------------------- C8
NewCategory(i) == inv[i].source \in new_feedback_category_values

\* Slot i is past the statement that sends `signal`.
PastSignal(i, signal) ==
  \/ HasNamed(inv[i].trace, "produce", "OCCURRENCE")
  \/ inv[i].pc = "produce"
  \/ signal = FIRST_FEEDBACK /\ inv[i].pc = "first_new_feedback"

\* Whether a call from this source sends the signal at all.
Concerns(i, signal) == signal = FIRST_FEEDBACK \/ NewCategory(i)

\* C8: with the submissions processed one after another, each first-seen
\* signal is delivered at most once per project and the project's flag is set
\* exactly when it has been; a call sends the signal only while it has not been
\* delivered (so never again after the first successful emission), and a call
\* that the signal concerns and that is past the send either sent it or found
\* it already delivered.  first_new_feedback_received is sent only by calls
\* of the "new" category.
C8_FirstSeenLatch ==
  /\ \A p \in ProjectIds :
       /\ received[<< FIRST_FEEDBACK, p >>] <= 1
       /\ received[<< FIRST_NEW_FEEDBACK, p >>] <= 1
       /\ flags[p].has_feedbacks <=> received[<< FIRST_FEEDBACK, p >>] = 1
       /\ flags[p].has_new_feedbacks <=> received[<< FIRST_NEW_FEEDBACK, p >>] = 1
  /\ \A i \in Slots : \A signal \in Signals :
       LET tr == inv[i].trace
           delivered == received[<< signal, inv[i].project_id >>]
       IN /\ CountNamed(tr, "send_robust", signal) <= 1
          /\ Has(tr, "send_robust", signal, "ok") => delivered = 1
          /\ Has(tr, "send_robust", signal, "receiver_failed") => delivered = 0
          /\ HasNamed(tr, "send_robust", signal) => Concerns(i, signal)
          /\ (PastSignal(i, signal) /\ Concerns(i, signal)
                /\ ~HasNamed(tr, "send_robust", signal)) => delivered = 1

\* A second feedback of the "new" category went past the send without sending,
\* the signal having been delivered for its project by an earlier call.
C8_Witness ==
  \E i \in Slots :
    /\ NewCategory(i)
    /\ inv[i].pc = "returned"
    /\ HasNamed(inv[i].trace, "call", "track_outcome")
    /\ CountOp(inv[i].trace, "send_robust") = 0
    /\ received[<< FIRST_NEW_FEEDBACK, inv[i].project_id >>] = 1
    /\ Len(outcomes) = 2

\* --------------------------------------------------------------------- C9
\* C9: with calls for one project running concurrently, each first-seen signal
\* is emitted at most once for the project across all the calls: no two calls
\* both deliver it, and it is never delivered twice.
C9_AtMostOnceConcurrently ==
  /\ \A i, j \in Slots : \A signal \in Signals :
       ( /\ i # j
         /\ inv[i].project_id = inv[j].project_id
         /\ Has(inv[i].trace, "send_robust", signal, "ok") )
       => ~Has(inv[j].trace, "send_robust", signal, "ok")
  /\ \A signal \in Signals : \A p \in ProjectIds : received[<< signal, p >>] <= 1

\* -------------------------------------------------------------------- C10
SignalFailed(i) ==
  \E signal \in Signals : Has(inv[i].trace, "send_robust", signal, "receiver_failed")

\* C10: a call in which a receiver of a first-seen signal failed does not raise
\* because of it: it goes on to the produce call, which it makes exactly once,
\* raises only if a produce call failed, and when it returns it has published
\* its occurrence and recorded the accepted outcome.
C10_SignalFailureIsolated ==
  \A i \in Slots :
    LET tr == inv[i].trace
    IN SignalFailed(i) =>
         /\ \A k \in 2..Len(tr) : tr[k].op = "raise" => tr[k - 1].op = "produce"
                                                         /\ tr[k - 1].tag = "failed"
         /\ inv[i].pc \in { "first_new_feedback", "produce", "auto_ignore", "track_outcome",
                            "returned", "raised" }
         /\ inv[i].pc \in { "auto_ignore", "track_outcome", "returned", "raised" } =>
              CountNamed(tr, "produce", "OCCURRENCE") = 1
         /\ inv[i].pc = "returned" =>
              /\ Cardinality(PublishedBy(i)) = 1
              /\ Count(tr, "call", "track_outcome", "ACCEPTED") = 1
              /\ outcomes # << >>
              /\ outcomes[Len(outcomes)].event_id = Val(inv[i].event.event_id)
              /\ outcomes[Len(outcomes)].outcome = "ACCEPTED"

\* Both receivers failed and the call returned with its outcome recorded.
C10_Witness ==
  \E i \in Slots :
    /\ Has(inv[i].trace, "send_robust", FIRST_FEEDBACK, "receiver_failed")
    /\ Has(inv[i].trace, "send_robust", FIRST_NEW_FEEDBACK, "receiver_failed")
    /\ inv[i].pc = "returned"
    /\ Len(outcomes) = 1

\* -------------------------------------------------------------------- C11
\* The classifier was called in slot i and raised.
ClassifierRaised(i) == Has(inv[i].trace, "call", "is_spam", "raise")

\* The locals of a call, its record of what it did left aside.
Locals(l) == [l EXCEPT !.trace = << >>]

\* C11: when the classifier raises, the verdict stays None, the exception does
\* not reach the caller, the classifier is not called again, and the call goes
\* on to build, validate, publish and record the outcome as it does when the
\* classification is skipped: the classification step leaves the call with the
\* locals of a skipped classification and touches nothing else, no status
\* change is attempted, and a call that returns has published its occurrence
\* and written its outcome.
C11_ClassifierFailOpen ==
  /\ [](\A i \in Slots :
          ClassifierRaised(i) =>
            /\ inv[i].is_message_spam = "None"
            /\ CountNamed(inv[i].trace, "call", "is_spam") = 1
            /\ inv[i].pc = "raised" =>
                 \/ HasNamed(inv[i].trace, "incr", INVALID_SCHEMA)
                 \/ Has(inv[i].trace, "produce", "OCCURRENCE", "failed")
            /\ ~HasNamed(inv[i].trace, "features.has", SPAM_FILTER_ACTIONS)
            /\ ~HasNamed(inv[i].trace, "produce", "STATUS_CHANGE")
            /\ inv[i].pc = "returned" =>
                 /\ Validated(i)
                 /\ Cardinality(PublishedBy(i)) = 1
                 /\ CountNamed(inv[i].trace, "call", "track_outcome") = 1)
  /\ [][\A i \in Slots :
          (inv[i].pc = "classify" /\ Has(inv'[i].trace, "call", "is_spam", "raise")) =>
            /\ Locals(inv'[i]) = Locals([inv[i] EXCEPT !.pc = "build"])
            /\ UNCHANGED << flags, stream, outcomes, metrics, received >>]_vars

\* A call whose classifier raised has returned with its occurrence published
\* and its outcome recorded.
C11_Witness ==
  \E i \in Slots :
    /\ ClassifierRaised(i)
    /\ inv[i].pc = "returned"
    /\ Cardinality(PublishedBy(i)) = 1
    /\ Len(outcomes) >= 1

\* -------------------------------------------------------------------- C12
\* What the call in slot i read of the two switches of the classification.
IngestRead(i, tag) == Has(inv[i].trace, "features.has", SPAM_FILTER_INGEST, tag)
OptionRead(i, tag) == Has(inv[i].trace, "get_option", AI_SPAM_DETECTION, tag)

\* C12: the classifier is called only by a call whose event passed the filter
\* and that read both the organization's flag and the project's option as
\* enabled; a call calls it at most once; and a call that read either switch
\* as disabled has not called it and has the verdict None.
C12_ClassifierGated ==
  \A i \in Slots :
    /\ HasNamed(inv[i].trace, "call", "is_spam") =>
         /\ IngestRead(i, "True")
         /\ OptionRead(i, "True")
         /\ Filtered(i)
         /\ Prescribed(inv[i].event) \notin FilterReasons
    /\ CountNamed(inv[i].trace, "call", "is_spam") <= 1
    /\ (IngestRead(i, "False") \/ OptionRead(i, "False")) =>
         /\ ~HasNamed(inv[i].trace, "call", "is_spam")
         /\ inv[i].is_message_spam = "None"

\* A call has read both switches as enabled and has the classifier's verdict.
C12_Witness ==
  \E i \in Slots :
    /\ IngestRead(i, "True")
    /\ OptionRead(i, "True")
    /\ Has(inv[i].trace, "call", "is_spam", "True")
    /\ inv[i].is_message_spam = "True"

\* -------------------------------------------------------------------- C13
\* The call in slot i published its occurrence.
OccurrencePublished(i) == Has(inv[i].trace, "produce", "OCCURRENCE", "ok")

\* The call in slot i has the verdict True and read the spam-actions flag as
\* enabled.
SpamActionDue(i) ==
  /\ inv[i].is_message_spam = "True"
  /\ Has(inv[i].trace, "features.has", SPAM_FILTER_ACTIONS, "True")

\* The status-change records in the stream for the occurrence built in slot i.
StatusChangesOf(i) ==
  IF inv[i].occurrence = None THEN {}
  ELSE { k \in StatusChanges : stream[k].fingerprint = Val(inv[i].occurrence).fingerprint }

\* C13 as stated: a finished call that published its occurrence has exactly one
\* status-change record in the stream iff its verdict is True and the
\* spam-actions flag is enabled, and the set-ignored counter was incremented
\* once with that record and not otherwise. Violated: the status-change
\* produce call can fail after the counter was incremented.
C13_StatusChangeIffSpam ==
  \A i \in Slots :
    (Finished(i) /\ OccurrencePublished(i)) =>
      /\ Cardinality(StatusChangesOf(i)) = IF SpamActionDue(i) THEN 1 ELSE 0
      /\ CountNamed(inv[i].trace, "incr", SET_IGNORED) = Cardinality(StatusChangesOf(i))
      /\ Cardinality(PublishedBy(i)) = 1

\* C13: after a successful occurrence publish the status-change produce call is
\* made, once, iff the verdict is True and the spam-actions flag is enabled,
\* and the set-ignored counter is incremented once with that call; the record
\* is in the stream, once, iff that call succeeded; it carries the fingerprint
\* and the project id of an occurrence published before it, with new_status
\* IGNORED and new_substatus FOREVER. Otherwise no status change is attempted,
\* and in every case the occurrence stays published.
C13_StatusChangeOnSpam ==
  /\ \A i \in Slots :
       LET tr == inv[i].trace
           attempts == CountNamed(tr, "produce", "STATUS_CHANGE")
       IN /\ attempts <= 1
          /\ attempts > 0 => (OccurrencePublished(i) /\ SpamActionDue(i))
          /\ (Finished(i) /\ OccurrencePublished(i)) =>
               attempts = IF SpamActionDue(i) THEN 1 ELSE 0
          /\ CountNamed(tr, "incr", SET_IGNORED) = attempts
          /\ Cardinality(StatusChangesOf(i)) =
               IF Has(tr, "produce", "STATUS_CHANGE", "ok") THEN 1 ELSE 0
          /\ OccurrencePublished(i) => Cardinality(PublishedBy(i)) = 1
  /\ \A k \in StatusChanges :
       /\ stream[k].new_status = "IGNORED"
       /\ stream[k].new_substatus = "FOREVER"
       /\ \E j \in Occurrences :
            /\ j < k
            /\ stream[j].occurrence.fingerprint = stream[k].fingerprint
            /\ stream[j].occurrence.project_id = stream[k].project_id
       /\ \A j \in StatusChanges : stream[j].fingerprint = stream[k].fingerprint => j = k

\* A call with the verdict True and the flag enabled has returned with its
\* occurrence and its status change in the stream, for the second project.
C13_Witness ==
  \E i \in Slots :
    /\ inv[i].pc = "returned"
    /\ SpamActionDue(i)
    /\ inv[i].project_id = 2
    /\ Cardinality(PublishedBy(i)) = 1
    /\ Cardinality(StatusChangesOf(i)) = 1
    /\ CountNamed(inv[i].trace, "incr", SET_IGNORED) = 1

\* -------------------------------------------------------------------- C14
\* What a call did, the classification and the spam triage left aside: the
\* reads of the two switches, the classifier call, and the flag read, counter
\* and status-change produce call of auto_ignore_spam_feedbacks.
AboutVerdict(e) ==
  \/ e.op = "features.has"
  \/ e.op = "get_option"
  \/ e.op = "call" /\ e.name = "is_spam"
  \/ e.op = "incr" /\ e.name = SET_IGNORED
  \/ e.op = "produce" /\ e.name = "STATUS_CHANGE"

VerdictFree(tr) == SelectSeq(tr, LAMBDA e : ~AboutVerdict(e))

\* The entries that record a collaborator's answer in their tag.
Answered(e) == e.op \in { "jsonschema.validate", "send_robust", "produce" }

\* Two records of calls part only at a collaborator's answer: at the first
\* place where they differ, both made the same call and got different answers.
PartOnlyAtAnswers(a, b) ==
  \A k \in 1..(IF Len(a) > Len(b) THEN Len(a) ELSE Len(b)) :
    (\A h \in 1..(k - 1) : h <= Len(a) /\ h <= Len(b) /\ a[h] = b[h]) =>
      /\ k <= Len(a)
      /\ k <= Len(b)
      /\ \/ a[k] = b[k]
         \/ /\ Answered(a[k])
            /\ a[k].op = b[k].op
            /\ a[k].name = b[k].name

\* The two calls were given the same input and found the project in the same
\* state.
SameInput(i, j) ==
  /\ Message(inv[i].event) = Message(inv[j].event)
  /\ inv[i].project_id = inv[j].project_id
  /\ inv[i].source = inv[j].source
  /\ inv[i].project = inv[j].project

\* C14: two finished calls on the same accepted input did the same things
\* whatever their verdicts, up to the classification itself and the spam
\* triage: they differ, if at all, from a collaborator's answer on, and when
\* no answer differs they end the same way with the same issue-platform
\* event, validation, signals, publish and outcome. Violated: a failing
\* status-change publish ends the spam-flagged call before its outcome.
C14_VerdictIndependent ==
  \A i, j \in Slots :
    (Finished(i) /\ Finished(j) /\ Filtered(i) /\ ~Rejected(i) /\ SameInput(i, j)) =>
      /\ PartOnlyAtAnswers(VerdictFree(inv[i].trace), VerdictFree(inv[j].trace))
      /\ VerdictFree(inv[i].trace) = VerdictFree(inv[j].trace) =>
           /\ inv[i].pc = inv[j].pc
           /\ (inv[i].event_fixed = None) = (inv[j].event_fixed = None)
           /\ inv[i].event_fixed # None =>
                Val(inv[i].event_fixed) = [Val(inv[j].event_fixed) EXCEPT
                                             !.event_id = Val(inv[i].event_fixed).event_id]
           /\ Cardinality(PublishedBy(i)) = Cardinality(PublishedBy(j))

\* -------------------------------------------------------------------- C15
\* make_evidence on its own: one call, on any feedback whose four fields are
\* each absent, the empty string or a one-letter string, from any source and
\* with any verdict.
EvidenceValues == { None, Some(<< >>), Some(<<"a">>) }

EvidenceFeedbacks ==
  [ associated_event_id : EvidenceValues, contact_email : EvidenceValues,
    message : EvidenceValues, name : EvidenceValues ]

InitEvidence ==
  /\ \E feedback \in EvidenceFeedbacks, source \in FeedbackCreationSource,
        is_message_spam \in { "None", "True", "False" } :
       inv = [i \in Slots |->
                IF i = 1
                THEN [Idle EXCEPT !.pc = "make_evidence",
                                  !.event = MkEvent(MkContexts(Some(feedback)), None),
                                  !.source = source,
                                  !.is_message_spam = is_message_spam]
                ELSE Idle]
  /\ flags = [p \in ProjectIds |-> NoFlags]
  /\ stream = << >>
  /\ outcomes = << >>
  /\ metrics = EmptyBag
  /\ received = [k \in Signals \X ProjectIds |-> 0]
  /\ uuids = 0
  /\ submitted = 0

MakeEvidence(i) ==
  LET l == inv[i]
      evidence == make_evidence(Val(Val(l.event.contexts).feedback), l.source,
                                l.is_message_spam)
  IN /\ l.pc = "make_evidence"
     /\ Goto(i, [l EXCEPT !.pc = "returned", !.evidence = Some(evidence)])
     /\ UNCHANGED << flags, stream, outcomes, metrics, received, uuids, submitted >>

NextEvidence == MakeEvidence(1) \/ Discard(1)

SpecEvidence == InitEvidence /\ [][NextEvidence]_vars

\* The order in which make_evidence lists its entries.
EvidenceOrder ==
  << "associated_event_id", "contact_email", "message", "name", "source", "is_spam" >>

EvidenceRank(name) == CHOOSE k \in 1..Len(EvidenceOrder) : EvidenceOrder[k] = name

\* The value an entry is to carry in evidence_data / in evidence_display.
DataOf(l, name) ==
  IF name = "source" THEN l.source
  ELSE IF name = "is_spam" THEN TRUE
  ELSE Val(Get(Val(Val(l.event.contexts).feedback), name))

ShownOf(l, name) == IF name = "is_spam" THEN "True" ELSE DataOf(l, name)

\* Whether the inputs of the call have a value for an entry.
PresentIn(l, name) ==
  IF name = "source" THEN TRUE
  ELSE IF name = "is_spam" THEN l.is_message_spam = "True"
  ELSE LET x == Get(Val(Val(l.event.contexts).feedback), name)
       IN x # None /\ Len(Val(x)) > 0

\* C15: make_evidence lists evidence_display in the order associated_event_id,
\* contact_email, message, name, source, is_spam, each once and only those
\* whose value is present (source always, is_spam only for the verdict True);
\* evidence_data has exactly the keys of the listed entries, with their
\* values; only the message entry is important.
C15_EvidenceOrdered ==
  \A i \in Slots :
    inv[i].evidence # None =>
      LET l == inv[i]
          data == Val(l.evidence).evidence_data
          display == Val(l.evidence).evidence_display
          listed == { display[k].name : k \in 1..Len(display) }
      IN /\ \A k \in 1..Len(display) :
              \E r \in 1..Len(EvidenceOrder) : EvidenceOrder[r] = display[k].name
         /\ \A k, h \in 1..Len(display) :
              k < h => EvidenceRank(display[k].name) < EvidenceRank(display[h].name)
         /\ \A r \in 1..Len(EvidenceOrder) :
              EvidenceOrder[r] \in listed <=> PresentIn(l, EvidenceOrder[r])
         /\ DOMAIN data = listed
         /\ \A k \in 1..Len(display) :
              /\ data[display[k].name] = DataOf(l, display[k].name)
              /\ display[k].value = ShownOf(l, display[k].name)
              /\ display[k].important = (display[k].name = "message")

\* make_evidence has returned the six entries, the message one important.
C15_Witness ==
  \E i \in Slots :
    /\ inv[i].pc = "returned"
    /\ inv[i].evidence # None
    /\ Len(Val(inv[i].evidence).evidence_display) = 6
    /\ Val(inv[i].evidence).evidence_display[3].important

\* -------------------------------------------------------------------- C16
\* Submissions with and without an event id of the caller, one after another:
\* the event id absent, the empty string, or a caller's id.
IdEvents ==
  { MkEvent(MkContexts(MkFeedback(Some(<<"a">>))), eid) :
      eid \in { None, Some(EmptyId) } \cup { Some(c) : c \in CallerEventIds } }

NextIds ==
  \E i \in Slots :
    \/ \E event \in IdEvents, project_id \in ProjectIds, source \in ConcSources :
         EnterAlone(i, event, project_id, source)
    \/ Step(i)

SpecIds == Init /\ [][NextIds]_vars

\* C16: a call uses one event id: the caller's when the submitted event has a
\* non-empty one, else one fresh id; the occurrence, the issue-platform event
\* and the outcome record of the call all carry it.
C16_OneEventId ==
  /\ \A i \in Slots :
       inv[i].occurrence # None =>
         LET l == inv[i]
             id == Val(l.occurrence).event_id
         IN /\ id # EmptyId
            /\ IF l.given.event_id # None /\ Val(l.given.event_id) # EmptyId
               THEN id = Val(l.given.event_id)
               ELSE /\ id \in 1..uuids
                    /\ id \notin CallerEventIds
                    /\ id # Val(l.occurrence).id
                    /\ id # Val(l.occurrence).fingerprint[1]
                    /\ \A k \in Occurrences :
                         stream[k].occurrence.event_id = id => k \in PublishedBy(i)
            /\ Val(l.event_fixed).event_id = Some(id)
            /\ HasNamed(l.trace, "call", "track_outcome") =>
                 outcomes[Len(outcomes)].event_id = id
  /\ \A k \in Occurrences :
       stream[k].event_data.event_id = Some(stream[k].occurrence.event_id)
  /\ \A m \in 1..Len(outcomes) :
       \E k \in Occurrences : stream[k].occurrence.event_id = outcomes[m].event_id

\* A call submitted with the empty string as its event id has returned with
\* its outcome recorded, after a call submitted with a caller's id.
C16_Witness ==
  \E i \in Slots :
    /\ inv[i].given.event_id = Some(EmptyId)
    /\ inv[i].pc = "returned"
    /\ Len(outcomes) = 2
    /\ outcomes[1].event_id \in CallerEventIds
    /\ outcomes[2].event_id \in 1..uuids

\* -------------------------------------------------------------------- C17
\* C17: every published occurrence has a fingerprint of one element, a fresh
\* value: it is no occurrence's id or event id, and no two published
\* occurrences have the same fingerprint, resubmissions with the same event id
\* included.
C17_FreshFingerprint ==
  \A k \in Occurrences :
    LET fingerprint == stream[k].occurrence.fingerprint
    IN /\ Len(fingerprint) = 1
       /\ fingerprint[1] \in 1..uuids
       /\ fingerprint[1] \notin CallerEventIds
       /\ \A j \in Occurrences :
            /\ fingerprint[1] # stream[j].occurrence.id
            /\ fingerprint[1] # stream[j].occurrence.event_id
            /\ stream[j].occurrence.fingerprint = fingerprint => j = k

\* Two occurrences submitted with the same event id are in the stream, with
\* different fingerprints.
C17_Witness ==
  \E k, j \in Occurrences :
    /\ k # j
    /\ stream[k].occurrence.event_id = stream[j].occurrence.event_id
    /\ stream[k].occurrence.event_id \in CallerEventIds
    /\ stream[k].occurrence.fingerprint # stream[j].occurrence.fingerprint

\* -------------------------------------------------------------------- C18
\* The slot runs a call of shim_to_feedback with no correlated event, for a
\* report that has its required fields email and comments.
ShimMissingEvent(i) ==
  /\ inv[i].shim # None
  /\ Val(inv[i].shim).event = None
  /\ Val(inv[i].shim).report.email # None
  /\ Val(inv[i].shim).report.comments # None

\* C18: shim_to_feedback called with no correlated event increments the
\* missing-event counter exactly once and builds an event with the reading of
\* the clock as timestamp, the platform "other" and the level of the report,
\* "info" when the report has none; it passes that event on to
\* create_feedback_issue, with the project and the source it was given; and no
\* call of shim_to_feedback ends with an exception.
C18_ShimMissingEvent ==
  \A i \in Slots :
    /\ inv[i].shim # None => Val(inv[i].shim).pc \in { "try", "returned" }
    /\ ShimMissingEvent(i) =>
         LET f == Val(inv[i].shim)
             feedback_event == Val(f.feedback_event)
         IN /\ Count(f.trace, "incr", MISSING_EVENT, "") = 1
            /\ CopiesIn(<< MISSING_EVENT, "" >>, metrics) = 1
            /\ feedback_event.timestamp = Some(f.now)
            /\ feedback_event.platform = Some("other")
            /\ feedback_event.level =
                 IF f.report.level = None THEN Some("info") ELSE f.report.level
            /\ Message(feedback_event) = f.report.comments
            /\ f.pc = "returned" =>
                 /\ Count(inv[i].trace, "incr", ENTERED, "") = 1
                 /\ Filtered(i)
                 /\ inv[i].given = feedback_event
                 /\ inv[i].project_id = f.project_id
                 /\ inv[i].source = f.source

\* A call of shim_to_feedback with no correlated event and a report without
\* level has returned, its event published by create_feedback_issue.
C18_Witness ==
  \E i \in Slots :
    /\ ShimMissingEvent(i)
    /\ Val(inv[i].shim).report.level = None
    /\ Val(inv[i].shim).pc = "returned"
    /\ inv[i].pc = "returned"
    /\ Cardinality(PublishedBy(i)) = 1
    /\ Len(outcomes) = 1

\* -------------------------------------------------------------------- C20
\* The contexts of the event submitted in slot i and of the issue-platform
\* event built from it, and the replay_id of the submitted feedback.
ContextsIn(i) == Val(inv[i].given.contexts)
ContextsOut(i) == Val(Val(inv[i].event_fixed).contexts)
FeedbackReplayId(i) == Get(Val(Get(ContextsIn(i), "feedback")), "replay_id")

\* C20 as stated: the replay context is synthesized exactly when the input has
\* no replay context and the feedback has a replay_id; a replay context of the
\* input is passed through unchanged; with neither there is none. Violated:
\* an empty replay context is replaced, and an empty replay_id is not used.
C20_ReplayWhenPresent ==
  \A i \in Slots :
    inv[i].event_fixed # None =>
      LET has_replay == Get(ContextsIn(i), "replay") # None
          has_id == FeedbackReplayId(i) # None
      IN /\ (~has_replay /\ has_id) =>
              Get(ContextsOut(i), "replay") = Some([replay_id |-> FeedbackReplayId(i)])
         /\ has_replay => Get(ContextsOut(i), "replay") = Get(ContextsIn(i), "replay")
         /\ (~has_replay /\ ~has_id) => Get(ContextsOut(i), "replay") = None

\* C20: the replay context of the issue-platform event is {replay_id:
\* contexts.feedback.replay_id} exactly when the replay context of the input is
\* absent or empty and the feedback's replay_id is present and not empty; a
\* replay context that is not empty is passed through unchanged; otherwise the
\* replay context stays as it was, absent or empty. The feedback context is
\* passed through unchanged.
C20_ReplaySynthesized ==
  \A i \in Slots :
    inv[i].event_fixed # None =>
      LET replay == Get(ContextsIn(i), "replay")
          due == ~Truthy(replay) /\ Truthy(FeedbackReplayId(i))
      IN /\ Get(ContextsOut(i), "replay") =
              IF due THEN Some([replay_id |-> FeedbackReplayId(i)]) ELSE replay
         /\ Get(ContextsOut(i), "feedback") = Get(ContextsIn(i), "feedback")
         /\ DOMAIN ContextsOut(i) =
              DOMAIN ContextsIn(i) \cup (IF due THEN {"replay"} ELSE {})

\* An issue-platform event has a replay context synthesized from the feedback
\* of an event submitted with an empty replay context.
C20_Witness ==
  \E i \in Slots :
    /\ inv[i].event_fixed # None
    /\ Get(ContextsIn(i), "replay") = Some(EmptyDict)
    /\ FeedbackReplayId(i) = Some(<<"q">>)
    /\ Get(ContextsOut(i), "replay") = Some([replay_id |-> Some(<<"q">>)])

\* -------------------------------------------------------------------- C19
\* C19: while and after create_feedback_issue processes it, the event the
\* caller passed in is as the caller passed it: its top-level fields, its
\* contexts mapping and its user mapping. Violated: the call stores the event
\* id in the event, and fix_for_issue_platform writes the synthesized replay
\* context and the fixed user into the dicts it shares with the event.
C19_EventUnchanged ==
  \A i \in Slots :
    inv[i].pc # "idle" =>
      /\ DOMAIN inv[i].event = DOMAIN inv[i].given
      /\ inv[i].event.event_id = inv[i].given.event_id
      /\ inv[i].event.contexts = inv[i].given.contexts
      /\ Get(inv[i].event, "user") = Get(inv[i].given, "user")
      /\ inv[i].event = inv[i].given

\* -------------------------------------------------------------------- C21
\* The user of the event submitted in slot i ({} when it has none), its
\* feedback, and the user of the issue-platform event built from it.
UserIn(i) ==
  IF Get(inv[i].given, "user") = None THEN EmptyDict ELSE Val(Get(inv[i].given, "user"))
FeedbackIn(i) == Val(Get(ContextsIn(i), "feedback"))
UserOut(i) == Val(Val(inv[i].event_fixed).user)

Emitted(i, signal) == HasNamed(inv[i].trace, "send_robust", signal)

\* The call in slot i is past the two statements that send the signals.
SignalsDecided(i) ==
  \/ inv[i].pc \in { "produce", "auto_ignore", "track_outcome" }
  \/ PastProduce(i)

\* C22: a call that got past the signal statements has sent
\* first_feedback_received iff the project it read has has_feedbacks unset, and
\* first_new_feedback_received iff its source is NEW_FEEDBACK_ENVELOPE or
\* NEW_FEEDBACK_DJANGO_ENDPOINT and the project has has_new_feedbacks unset; a
\* call from a legacy source never sends first_new_feedback_received; a call
\* sends each signal at most once, after a successful validation and before
\* its produce call.
C22_SignalsBySourceAndFlags ==
  \A i \in Slots :
    LET tr == inv[i].trace
        new == inv[i].source \in { NEW_FEEDBACK_ENVELOPE, NEW_FEEDBACK_DJANGO_ENDPOINT }
    IN /\ CountNamed(tr, "send_robust", FIRST_FEEDBACK) <= 1
       /\ CountNamed(tr, "send_robust", FIRST_NEW_FEEDBACK) <= 1
       /\ ~new => ~Emitted(i, FIRST_NEW_FEEDBACK)
       /\ SignalsDecided(i) =>
            /\ Emitted(i, FIRST_FEEDBACK) <=> ~Val(inv[i].project).has_feedbacks
            /\ Emitted(i, FIRST_NEW_FEEDBACK) <=>
                 (new /\ ~Val(inv[i].project).has_new_feedbacks)
       /\ \A k \in 1..Len(tr) :
            tr[k].op = "send_robust" =>
              /\ \E h \in 1..(k - 1) : tr[h].op = "jsonschema.validate" /\ tr[h].tag = "valid"
              /\ \A h \in 1..(k - 1) : tr[h].op # "produce" /\ tr[h].name # INVALID_SCHEMA

\* A call from a new source has returned for a project that had has_feedbacks
\* set and has_new_feedbacks unset: it sent first_new_feedback_received alone.
C22_Witness ==
  \E i \in Slots :
    /\ inv[i].pc = "returned"
    /\ inv[i].source = NEW_FEEDBACK_DJANGO_ENDPOINT
    /\ inv[i].project # None
    /\ Val(inv[i].project).has_feedbacks
    /\ ~Val(inv[i].project).has_new_feedbacks
    /\ Emitted(i, FIRST_NEW_FEEDBACK)
    /\ ~Emitted(i, FIRST_FEEDBACK)
    /\ Cardinality(PublishedBy(i)) = 1

\* -------------------------------------------------------------------- C23
\* The slot runs a call of shim_to_feedback with a correlated event, for a
\* report that has its required fields email and comments.
ShimCorrelated(i) ==
  /\ inv[i].shim # None
  /\ Val(inv[i].shim).event # None
  /\ Val(inv[i].shim).report.email # None
  /\ Val(inv[i].shim).report.comments # None

\* The correlated event has a replay id.
HasReplayId(e) == Truthy(e.replay) /\ Truthy(Get(Val(e.replay), "replay_id"))

\* C23: shim_to_feedback called with a correlated event builds an event with
\* the timestamp, level, platform, environment and tags of that event and with
\* its id as associated_event_id, whatever event_id the report has; the event
\* has the replay context and feedback.replay_id of the correlated event when
\* that has a replay id, and neither of them otherwise; the missing-event
\* counter is not incremented; name, contact_email and message are the name
\* (empty when absent), email and comments of the report.
C23_ShimCorrelated ==
  \A i \in Slots :
    ShimCorrelated(i) =>
      LET f == Val(inv[i].shim)
          e == Val(f.event)
          feedback_event == Val(f.feedback_event)
          contexts == Val(feedback_event.contexts)
          feedback == Val(Get(contexts, "feedback"))
      IN /\ feedback_event.timestamp = Some(e.timestamp)
         /\ feedback_event.level = Some(e.level)
         /\ feedback_event.platform = Some(e.platform)
         /\ feedback_event.environment = Some(e.environment)
         /\ feedback_event.tags = Some(e.tags)
         /\ Get(feedback, "associated_event_id") = Some(e.event_id)
         /\ IF HasReplayId(e)
            THEN /\ Get(contexts, "replay") = e.replay
                 /\ Get(feedback, "replay_id") = Get(Val(e.replay), "replay_id")
            ELSE /\ "replay" \notin DOMAIN contexts
                 /\ "replay_id" \notin DOMAIN feedback
         /\ CountNamed(f.trace, "incr", MISSING_EVENT) = 0
         /\ CopiesIn(<< MISSING_EVENT, "" >>, metrics) = 0
         /\ Get(feedback, "name") =
              IF f.report.name = None THEN Some(<< >>) ELSE f.report.name
         /\ Get(feedback, "contact_email") = f.report.email
         /\ Get(feedback, "message") = f.report.comments

\* A call of shim_to_feedback has returned, its event published, for a
\* correlated event with a replay id and a report without name that has an
\* event_id of its own.
C23_Witness ==
  \E i \in Slots :
    /\ ShimCorrelated(i)
    /\ HasReplayId(Val(Val(inv[i].shim).event))
    /\ Val(inv[i].shim).report.name = None
    /\ Val(inv[i].shim).report.event_id = Some(<<"r">>)
    /\ Val(inv[i].shim).pc = "returned"
    /\ inv[i].pc = "returned"
    /\ Cardinality(PublishedBy(i)) = 1

\* -------------------------------------------------------------------- C24
\* The call of shim_to_feedback in slot i lacks a required field of the report.
FieldMissing(i) ==
  \/ Val(inv[i].shim).report.email = None
  \/ Val(inv[i].shim).report.comments = None

\* A step inside the call of shim_to_feedback in slot i failed: a required
\* field is missing, the validation rejected the event, a produce call or
\* track_outcome raised.
FailedInside(i) ==
  \/ FieldMissing(i)
  \/ HasNamed(inv[i].trace, "incr", INVALID_SCHEMA)
  \/ \E k \in 1..Len(inv[i].trace) : inv[i].trace[k].tag = "failed"

\* C24: no call of shim_to_feedback ends with an exception; a call in which a
\* required report field is missing, the validation fails, a produce call
\* fails or track_outcome fails returns having logged the exception once (and
\* a call without failure logs none) and records no outcome; when the failure
\* came before the produce call of the occurrence, nothing is in the stream.
C24_ShimCatchesAll ==
  \A i \in Slots :
    inv[i].shim # None =>
      LET f == Val(inv[i].shim)
      IN /\ f.pc \in { "try", "returned" }
         /\ FieldMissing(i) => (f.pc = "returned" /\ inv[i].pc = "idle")
         /\ (FailedInside(i) /\ ~FieldMissing(i)) => inv[i].pc = "raised"
         /\ f.pc = "returned" =>
              Count(f.trace, "log", "exception", "") = IF FailedInside(i) THEN 1 ELSE 0
         /\ FailedInside(i) =>
              /\ outcomes = << >>
              /\ ~Has(inv[i].trace, "call", "track_outcome", "ACCEPTED")
         /\ (FailedInside(i) /\ ~PastProduce(i)) => stream = << >>

\* A call of shim_to_feedback has returned after the validation rejected its
\* event: the exception is logged, nothing is published and no outcome is
\* recorded.
C24_Witness ==
  \E i \in Slots :
    /\ inv[i].shim # None
    /\ Val(inv[i].shim).pc = "returned"
    /\ HasNamed(inv[i].trace, "incr", INVALID_SCHEMA)
    /\ Count(Val(inv[i].shim).trace, "log", "exception", "") = 1
    /\ stream = << >>
    /\ outcomes = << >>

\* -------------------------------------------------------------------- C25
\* Accepted events that may carry project_id and received keys of their own:
\* create_feedback_issue takes any mapping as event.
OwnProjectIds == { None } \cup { Some(p) : p \in ProjectIds }
OwnReceived == { None, Some(isoformat(5)) }

OwnFieldEvents ==
  { Merge(MkEvent(MkContexts(MkFeedback(Some(<<"a">>))), None),
          Only([ project_id |-> own_id, received |-> own_received ])) :
      own_id \in OwnProjectIds, own_received \in OwnReceived }

\* One submission, of any event of OwnFieldEvents, for any project.
NextOwn ==
  \E i \in Slots :
    \/ \E event \in OwnFieldEvents, project_id \in ProjectIds, source \in ConcSources :
         submitted = 0 /\ EnterAlone(i, event, project_id, source)
    \/ Step(i)

SpecOwn == Init /\ [][NextOwn]_vars

\* The outcome records of the event of the stream record k.
OutcomesOf(k) ==
  { o \in 1..Len(outcomes) : outcomes[o].event_id = stream[k].occurrence.event_id }

\* C25: for every published occurrence the project_id of the issue-platform
\* event is the project_id of the occurrence and of its outcome record, which
\* is the project_id argument of the call, and its received field is the
\* reading of the server's clock, whatever keys the submitted event carries.
C25_ServerFields ==
  /\ \A k \in Occurrences :
       /\ stream[k].event_data.project_id = Some(stream[k].occurrence.project_id)
       /\ stream[k].event_data.received = Some(isoformat(ServerTime))
       /\ \A o \in OutcomesOf(k) :
            outcomes[o].project_id = stream[k].occurrence.project_id
  /\ \A i \in Slots :
       inv[i].occurrence # None => Val(inv[i].occurrence).project_id = inv[i].project_id

====
